---------------------------- MODULE Spec2Model ----------------------------
(***************************************************************************)
(* Model of the PCB layout pipeline of src/utils/pcb_layout.py.            *)
(*                                                                         *)
(* Units.  Python floats are modelled by scaled integers:                  *)
(*   lengths and coordinates  in 0.01 mm   (80 mm        = 8000)           *)
(*   trace widths, via sizes  in 0.001 mm  (0.2 mm       = 200)            *)
(*   thermal power            in mW        (0.5 W        = 500)            *)
(*   prices                   in cents     (25.00        = 2500)           *)
(* Distances are compared through their squares, so math.sqrt is not       *)
(* needed.  Python strings are sequences of one-character strings, so that *)
(* upper(), lower(), startswith() and the substring test `in` are computed *)
(* and not assumed.                                                        *)
(***************************************************************************)
EXTENDS Integers, Sequences, FiniteSets, TLC

VARIABLES
    engine,   \* PCBLayoutEngine fields placer, router, drc (shared by all calls)
    frames,   \* one frame per generate_pcb_layout call: locals, position, result
    fs,       \* files written to the output directory
    unit      \* objects driven directly through the component-level API

vars == <<engine, frames, fs, unit>>

---------------------------------------------------------------------------
(* Bounds of the model *)

MaxComponents == 3     \* longest component list of a circuit description
MaxConnections == 2    \* longest connection list of a circuit description
MaxUnitComponents == 3 \* longest component list handed to the placer directly
RandSteps == 2         \* intervals per axis of the lattice standing for np.random.uniform
MaxDrcComponents == 2  \* longest component list of a design handed to the checker
MaxDrcNets == 2        \* longest net list of a design handed to the checker
MaxBomComponents == 3  \* longest component list handed to the BOM generator

---------------------------------------------------------------------------
(* Python strings *)

LowerAlpha == <<"a","b","c","d","e","f","g","h","i","j","k","l","m",
                "n","o","p","q","r","s","t","u","v","w","x","y","z">>
UpperAlpha == <<"A","B","C","D","E","F","G","H","I","J","K","L","M",
                "N","O","P","Q","R","S","T","U","V","W","X","Y","Z">>

UpperChar(c) ==
    IF \E i \in 1..26 : LowerAlpha[i] = c
    THEN UpperAlpha[CHOOSE i \in 1..26 : LowerAlpha[i] = c]
    ELSE c

LowerChar(c) ==
    IF \E i \in 1..26 : UpperAlpha[i] = c
    THEN LowerAlpha[CHOOSE i \in 1..26 : UpperAlpha[i] = c]
    ELSE c

Upper(s) == [i \in 1..Len(s) |-> UpperChar(s[i])]
Lower(s) == [i \in 1..Len(s) |-> LowerChar(s[i])]

\* Python `sub in s`
Contains(s, sub) ==
    \E i \in 0..(Len(s) - Len(sub)) : SubSeq(s, i + 1, i + Len(sub)) = sub

\* Python s.startswith(p)
StartsWith(s, p) == Len(p) <= Len(s) /\ SubSeq(s, 1, Len(p)) = p

ContainsAny(s, subs) == \E k \in subs : Contains(s, k)
StartsWithAny(s, ps) == \E p \in ps : StartsWith(s, p)

\* dict.get(key, default) on a mapping modelled as a function
Get(d, k, default) == IF k \in DOMAIN d THEN d[k] ELSE default

Digit(n) == <<"0","1","2","3","4","5","6","7","8","9">>[n + 1]
\* str(n) for the small naturals the model formats
IntStr(n) == IF n < 10 THEN <<Digit(n)>> ELSE <<Digit(n \div 10), Digit(n % 10)>>

RECURSIVE SeqSum(_)
SeqSum(s) == IF s = <<>> THEN 0 ELSE Head(s) + SeqSum(Tail(s))

Range(s) == {s[i] : i \in DOMAIN s}

\* all sequences over S of length at most n
SeqsUpTo(S, n) == UNION {[1..k -> S] : k \in 0..n}

Min(a, b) == IF a < b THEN a ELSE b
Max(a, b) == IF a > b THEN a ELSE b

---------------------------------------------------------------------------
(* Enumerations and data classes *)

ComponentType == {"microcontroller", "resistor", "capacitor", "led",
                  "connector", "ic", "crystal", "inductor"}

\* PCBConstraints defaults of the data class
DefaultConstraints ==
    [board_width |-> 10000, board_height |-> 8000, min_trace_width |-> 200,
     min_via_size |-> 300, min_spacing |-> 200, layer_count |-> 2,
     max_current_density |-> 35]

\* ComponentPlacement(...); placed_by is a history field recording which
\* placement path wrote x, y last ("none" before any placement)
ComponentPlacement(ref, ctype, power) ==
    [reference |-> ref, x |-> 0, y |-> 0, rotation |-> 0, layer |-> "F.Cu",
     component_type |-> ctype, thermal_power |-> power,
     critical_timing |-> FALSE, placed_by |-> "none"]

\* RoutingNet(...); impedance_target 0 - 1 stands for None
NoImpedance == 0 - 1

\* a net created as a differential pair of 120 ohm
RoutingNetDifferential(name, pins, priority) ==
    [name |-> name, pins |-> pins, priority |-> priority,
     differential_pair |-> TRUE, impedance_target |-> 120]

RoutingNet(name, pins, priority) ==
    [name |-> name, pins |-> pins, priority |-> priority,
     differential_pair |-> FALSE, impedance_target |-> NoImpedance]

PCBDesign(components, nets, constraints) ==
    [components |-> components, nets |-> nets, constraints |-> constraints,
     board_outline |-> <<<<0, 0>>, <<constraints.board_width, 0>>,
                         <<constraints.board_width, constraints.board_height>>,
                         <<0, constraints.board_height>>, <<0, 0>>>>]

Dist2(x1, y1, x2, y2) == (x1 - x2) * (x1 - x2) + (y1 - y2) * (y1 - y2)

---------------------------------------------------------------------------
(* String literals of the source *)

sVCC == <<"V","C","C">>
sMicrocontroller == <<"m","i","c","r","o","c","o","n","t","r","o","l","l","e","r">>
sResistor == <<"r","e","s","i","s","t","o","r">>
sU1 == <<"U","1">>
sR1 == <<"R","1">>

\* the keyword list ['VCC', 'VDD', 'GND', 'POWER'] of the engine
PowerKeywords == {sVCC, <<"V","D","D">>, <<"G","N","D">>, <<"P","O","W","E","R">>}

---------------------------------------------------------------------------
(* PCBLayoutEngine._parse_circuit_data and its helpers *)

\* _determine_component_type(comp_data)
DetermineComponentType(comp_data) ==
    LET comp_name == Lower(Get(comp_data, "type", <<>>))
        reference == Upper(Get(comp_data, "reference", <<>>))
    IN  IF Contains(comp_name, <<"a","r","d","u","i","n","o">>) \/ Contains(comp_name, sMicrocontroller)
           \/ StartsWith(reference, <<"U">>) THEN "microcontroller"
        ELSE IF Contains(comp_name, sResistor) \/ StartsWith(reference, <<"R">>)
        THEN "resistor"
        ELSE IF Contains(comp_name, <<"c","a","p","a","c","i","t","o","r">>) \/ StartsWith(reference, <<"C">>)
        THEN "capacitor"
        ELSE IF Contains(comp_name, <<"l","e","d">>) \/ StartsWith(reference, <<"D">>)
        THEN "led"
        ELSE IF Contains(comp_name, <<"c","o","n","n","e","c","t","o","r">>) \/ StartsWith(reference, <<"J">>)
        THEN "connector"
        ELSE IF Contains(comp_name, <<"c","r","y","s","t","a","l">>) \/ StartsWith(reference, <<"Y">>)
        THEN "crystal"
        ELSE IF Contains(comp_name, <<"i","n","d","u","c","t","o","r">>) \/ StartsWith(reference, <<"L">>)
        THEN "inductor"
        ELSE "ic"

\* a parser that takes the thermal_power the record states
EstimateThermalPowerGiven(comp_data) == Get(comp_data, "thermal_power", 10)

\* _estimate_thermal_power(comp_data), in mW
EstimateThermalPower(comp_data) ==
    LET comp_type == Lower(Get(comp_data, "type", <<>>))
    IN  IF Contains(comp_type, <<"a","r","d","u","i","n","o">>) \/ Contains(comp_type, sMicrocontroller)
        THEN 500
        ELSE IF Contains(comp_type, <<"l","e","d">>) THEN 100
        ELSE IF Contains(comp_type, sResistor) THEN 50
        ELSE 10

\* _determine_net_priority(net_name)
DetermineNetPriority(net_name) ==
    LET net_upper == Upper(net_name)
    IN  IF ContainsAny(net_upper, {<<"C","L","K">>, <<"C","L","O","C","K">>}) THEN 10
        ELSE IF ContainsAny(net_upper, PowerKeywords) THEN 8
        ELSE IF ContainsAny(net_upper, {<<"D","A","T","A">>, <<"S","D","A">>, <<"S","C","L">>}) THEN 6
        ELSE 3

\* the PCBConstraints built from circuit_data['constraints']
ParseConstraints(constraints_data) ==
    [board_width |-> Get(constraints_data, "board_width", 8000),
     board_height |-> Get(constraints_data, "board_height", 6000),
     layer_count |-> Get(constraints_data, "layer_count", 2),
     min_trace_width |-> Get(constraints_data, "min_trace_width", 200),
     min_via_size |-> Get(constraints_data, "min_via_size", 300),
     min_spacing |-> DefaultConstraints.min_spacing,
     max_current_density |-> DefaultConstraints.max_current_density]

\* the dict -> list conversion of the components section; a mapping is the
\* sequence of its items [key, value, is_none] in insertion order
DictToComponentList(items) ==
    [i \in 1..Len(items) |->
        [type |-> items[i].key,
         value |-> IF ~items[i].is_none THEN items[i].value
                   ELSE IF items[i].key = sResistor THEN <<"2","2","0","R">> ELSE <<"R","e","d"," ","L","E","D">>,
         reference |-> Upper(items[i].key) \o <<"1">>]]

\* Whether iterating the components section and calling comp_data.get raises.
\* A number or None is not iterable; the elements of a non-empty string are
\* strings, which have no get; an empty string is iterated zero times.
ComponentsRaise(components_data) ==
    \/ components_data.kind \in {"int", "none"}
    \/ components_data.kind = "str" /\ Len(components_data.items) > 0

ComponentsError(components_data) ==
    IF components_data.kind = "int" THEN "'int' object is not iterable"
    ELSE IF components_data.kind = "none" THEN "'NoneType' object is not iterable"
    ELSE "'str' object has no attribute 'get'"

\* the component loop of _parse_circuit_data
ParseComponents(components_data) ==
    LET list == IF components_data.kind = "dict"
                THEN DictToComponentList(components_data.items)
                ELSE IF components_data.kind = "list" THEN components_data.items
                ELSE <<>>
    IN  [i \in 1..Len(list) |->
            ComponentPlacement(
                Get(list[i], "reference", <<"C">> \o IntStr(i)),
                DetermineComponentType(list[i]),
                EstimateThermalPower(list[i]))]

\* a bug: a pin is appended whether or not the net holds it already
AddPinAlways(pins, pin) == Append(pins, pin)

\* `if pin not in pins: pins.append(pin)`
AddPin(pins, pin) == IF pin \in Range(pins) THEN pins ELSE Append(pins, pin)

\* a bug: the `to` end of a connection is not added to the net
ParseConnectionFromOnly(net_dict, conn) ==
    LET net_name == Get(conn, "net", <<"N","e","t","_">> \o IntStr(Len(net_dict)))
        known == \E i \in 1..Len(net_dict) : net_dict[i].name = net_name
        nets1 == IF known THEN net_dict
                 ELSE Append(net_dict,
                             RoutingNet(net_name, <<>>, DetermineNetPriority(net_name)))
        k == CHOOSE i \in 1..Len(nets1) : nets1[i].name = net_name
        from_pin == <<Get(conn, "from", <<>>), Get(conn, "from_pin", <<"1">>)>>
    IN  [nets1 EXCEPT ![k].pins = AddPin(@, from_pin)]

\* one iteration of the connection loop; net_dict is the sequence of nets in
\* insertion order
ParseConnection(net_dict, conn) ==
    LET net_name == Get(conn, "net", <<"N","e","t","_">> \o IntStr(Len(net_dict)))
        known == \E i \in 1..Len(net_dict) : net_dict[i].name = net_name
        nets1 == IF known THEN net_dict
                 ELSE Append(net_dict,
                             RoutingNet(net_name, <<>>, DetermineNetPriority(net_name)))
        k == CHOOSE i \in 1..Len(nets1) : nets1[i].name = net_name
        from_pin == <<Get(conn, "from", <<>>), Get(conn, "from_pin", <<"1">>)>>
        to_pin == <<Get(conn, "to", <<>>), Get(conn, "to_pin", <<"1">>)>>
    IN  [nets1 EXCEPT ![k].pins = AddPin(AddPin(@, from_pin), to_pin)]

RECURSIVE ParseNets(_, _)
ParseNets(connections, net_dict) ==
    IF connections = <<>> THEN net_dict
    ELSE ParseNets(Tail(connections), ParseConnection(net_dict, Head(connections)))

EmptyComponents == [kind |-> "list", items |-> <<>>]

\* _parse_circuit_data(circuit_data): [raised, error, design]
ParseCircuitData(circuit_data) ==
    LET constraints == ParseConstraints(Get(circuit_data, "constraints", <<>>))
        components_data == Get(circuit_data, "components", EmptyComponents)
        connections == Get(circuit_data, "connections", <<>>)
    IN  IF ComponentsRaise(components_data)
        THEN [raised |-> TRUE, error |-> ComponentsError(components_data),
              design |-> PCBDesign(<<>>, <<>>, constraints)]
        ELSE [raised |-> FALSE, error |-> "",
              design |-> PCBDesign(ParseComponents(components_data),
                                   ParseNets(connections, <<>>), constraints)]

---------------------------------------------------------------------------
(* ComponentPlacer *)

PLACEMENT_GRID == 254      \* self.placement_grid = 2.54 mm
BOARD_MARGIN == 1000       \* the 10 mm inset of both searches
HIGH_POWER_MW == 500       \* thermal_power > 0.5 selects the high-power path
LOW_POWER_SPACING == 500   \* `distance < 5.0` of the grid scan
CIRCLE_RADIUS == 1500      \* radius = 15.0 of signal_integrity_placement

IsHighPower(c) == c.thermal_power > HIGH_POWER_MW

\* squared distance from (x, y) to a component's position
CompDist2(c, x, y) == Dist2(x, y, c.x, c.y)

\* The sample points standing for np.random.uniform(lo, hi): a lattice over
\* the interval, end points included (numpy accepts lo > hi and then samples
\* the interval between hi and lo).
RandAxis(lo, hi) == {lo + (i * (hi - lo)) \div RandSteps : i \in 0..RandSteps}

\* squared distance from a component to the sampled rectangle
RectDist2(c, xlo, xhi, ylo, yhi) ==
    LET dx == Max(Max(xlo - c.x, c.x - xhi), 0)
        dy == Max(Max(ylo - c.y, c.y - yhi), 0)
    IN  dx * dx + dy * dy

\* a bug: the spacing test of the random search accepts every sample
ThermalValidAlways(existing_components, min_distance, x, y) ==
    \A i \in 1..Len(existing_components) :
        CompDist2(existing_components[i], x, y) >= 0

\* `valid` of _find_thermal_position for the sample (x, y)
ThermalValid(existing_components, min_distance, x, y) ==
    \A i \in 1..Len(existing_components) :
        ~(CompDist2(existing_components[i], x, y) < min_distance * min_distance)

\* _find_thermal_position: the positions the random search can return.  A
\* sample that keeps min_distance to every existing component is returned;
\* (20, 20) is returned when all 100 samples are rejected, which can happen
\* exactly when some point of the sampled rectangle is closer than
\* min_distance to an existing component.
FindThermalPosition(existing_components, min_distance, constraints) ==
    LET xhi == constraints.board_width - BOARD_MARGIN
        yhi == constraints.board_height - BOARD_MARGIN
        accepted == {[x |-> x, y |-> y, placed_by |-> "random"] :
                        <<x, y>> \in {q \in RandAxis(BOARD_MARGIN, xhi)
                                            \X RandAxis(BOARD_MARGIN, yhi) :
                            ThermalValid(existing_components, min_distance, q[1], q[2])}}
        can_reject == \E i \in 1..Len(existing_components) :
                        RectDist2(existing_components[i],
                                  Min(BOARD_MARGIN, xhi), Max(BOARD_MARGIN, xhi),
                                  Min(BOARD_MARGIN, yhi), Max(BOARD_MARGIN, yhi))
                            < min_distance * min_distance
    IN  accepted \cup (IF can_reject
                       THEN {[x |-> 2000, y |-> 2000, placed_by |-> "fallback20"]}
                       ELSE {})

\* len(np.arange(10, limit - 10, 2.54))
GridCount(limit) ==
    IF limit - 2 * BOARD_MARGIN > 0
    THEN (limit - 2 * BOARD_MARGIN + PLACEMENT_GRID - 1) \div PLACEMENT_GRID
    ELSE 0

\* a scan that takes every cell for free
CellAvailableAlways(existing_components, x, y) == TRUE

\* `available` of _find_available_position for the cell (x, y)
CellAvailable(existing_components, x, y) ==
    \A i \in 1..Len(existing_components) :
        ~(CompDist2(existing_components[i], x, y)
            < LOW_POWER_SPACING * LOW_POWER_SPACING)

\* the row-major scan from cell k on: y outer loop, x inner loop
RECURSIVE ScanGrid(_, _, _, _)
ScanGrid(k, nx, ny, existing_components) ==
    IF k >= nx * ny
    THEN [x |-> 1000, y |-> 1000, placed_by |-> "fallback10"]
    ELSE LET x == BOARD_MARGIN + PLACEMENT_GRID * (k % nx)
             y == BOARD_MARGIN + PLACEMENT_GRID * (k \div nx)
         IN  IF CellAvailable(existing_components, x, y)
             THEN [x |-> x, y |-> y, placed_by |-> "grid"]
             ELSE ScanGrid(k + 1, nx, ny, existing_components)

\* _find_available_position(existing_components, component)
FindAvailablePosition(existing_components, constraints) ==
    LET nx == GridCount(constraints.board_width)
        ny == GridCount(constraints.board_height)
    IN  IF nx = 0 \/ ny = 0
        THEN [x |-> 1000, y |-> 1000, placed_by |-> "fallback10"]
        ELSE ScanGrid(0, nx, ny, existing_components)

MoveTo(c, pos) == [c EXCEPT !.x = pos.x, !.y = pos.y, !.placed_by = pos.placed_by]

\* min_distance = 10.0 + component.thermal_power * 5.0
ThermalMinDistance(component) == 1000 + component.thermal_power \div 2

\* the high-power loop of thermal_aware_placement from index i on: the set of
\* lists placed_components it can end with
RECURSIVE PlaceHighPower(_, _, _, _)
PlaceHighPower(high_power, i, placed_components, constraints) ==
    IF i > Len(high_power) THEN {placed_components}
    ELSE LET component == high_power[i]
             positions ==
                IF i = 1
                THEN {[x |-> constraints.board_width \div 2,
                       y |-> constraints.board_height \div 2,
                       placed_by |-> "center"]}
                ELSE FindThermalPosition(placed_components,
                                         ThermalMinDistance(component), constraints)
         IN  UNION {PlaceHighPower(high_power, i + 1,
                                   Append(placed_components, MoveTo(component, pos)),
                                   constraints) : pos \in positions}

\* the low-power loop of thermal_aware_placement
RECURSIVE PlaceLowPower(_, _, _)
PlaceLowPower(low_power, placed_components, constraints) ==
    IF low_power = <<>> THEN placed_components
    ELSE PlaceLowPower(Tail(low_power),
                       Append(placed_components,
                              MoveTo(Head(low_power),
                                     FindAvailablePosition(placed_components,
                                                           constraints))),
                       constraints)

\* thermal_aware_placement(components): the lists it can return
ThermalAwarePlacement(components, constraints) ==
    LET high_power == SelectSeq(components, LAMBDA c : IsHighPower(c))
        low_power == SelectSeq(components, LAMBDA c : ~IsHighPower(c))
    IN  {PlaceLowPower(low_power, placed, constraints) :
            placed \in PlaceHighPower(high_power, 1, <<>>, constraints)}

\* 15 * (cos, sin)(2 pi i / k) in 0.01 mm, rounded to the nearest unit
CircleOffsets(k) ==
    CASE k = 1 -> <<<<CIRCLE_RADIUS, 0>>>>
      [] k = 2 -> <<<<CIRCLE_RADIUS, 0>>, <<0 - CIRCLE_RADIUS, 0>>>>
      [] k = 3 -> <<<<CIRCLE_RADIUS, 0>>, <<0 - 750, 1299>>, <<0 - 750, 0 - 1299>>>>
      [] k = 4 -> <<<<CIRCLE_RADIUS, 0>>, <<0, CIRCLE_RADIUS>>, <<0 - CIRCLE_RADIUS, 0>>, <<0, 0 - CIRCLE_RADIUS>>>>
      [] k = 5 -> <<<<CIRCLE_RADIUS, 0>>, <<464, 1427>>, <<0 - 1214, 882>>,
                    <<0 - 1214, 0 - 882>>, <<464, 0 - 1427>>>>
      [] k = 6 -> <<<<CIRCLE_RADIUS, 0>>, <<750, 1299>>, <<0 - 750, 1299>>, <<0 - CIRCLE_RADIUS, 0>>,
                    <<0 - 750, 0 - 1299>>, <<750, 0 - 1299>>>>
      [] k = 7 -> <<<<CIRCLE_RADIUS, 0>>, <<935, 1173>>, <<0 - 334, 1462>>,
                    <<0 - 1351, 651>>, <<0 - 1351, 0 - 651>>, <<0 - 334, 0 - 1462>>,
                    <<935, 0 - 1173>>>>

\* a bug: a reference that names no component is taken for the first one
FindComponentOrFirst(components, comp_ref) ==
    IF \E i \in 1..Len(components) : components[i].reference = comp_ref
    THEN CHOOSE i \in 1..Len(components) :
            /\ components[i].reference = comp_ref
            /\ \A j \in 1..(i - 1) : components[j].reference # comp_ref
    ELSE IF Len(components) > 0 THEN 1 ELSE 0

\* next((c for c in components if c.reference == comp_ref), None): the index
\* of the first component with that reference, 0 for None
FindComponent(components, comp_ref) ==
    IF \E i \in 1..Len(components) : components[i].reference = comp_ref
    THEN CHOOSE i \in 1..Len(components) :
            /\ components[i].reference = comp_ref
            /\ \A j \in 1..(i - 1) : components[j].reference # comp_ref
    ELSE 0

\* all pins of the critical nets, in loop order
RECURSIVE CriticalPins(_)
CriticalPins(critical_nets) ==
    IF critical_nets = <<>> THEN <<>>
    ELSE Head(critical_nets).pins \o CriticalPins(Tail(critical_nets))

\* a placer that takes every component for a critical one
CriticalComponentsAll(components, pins, found) ==
    [i \in 1..Len(components) |-> i]

\* critical_components as the list of component indices, in first-hit order
RECURSIVE CriticalComponents(_, _, _)
CriticalComponents(components, pins, found) ==
    IF pins = <<>> THEN found
    ELSE LET i == FindComponent(components, Head(pins)[1])
         IN  CriticalComponents(components, Tail(pins),
                                IF i = 0 \/ i \in Range(found) THEN found
                                ELSE Append(found, i))

\* signal_integrity_placement(components, critical_nets)
SignalIntegrityPlacement(components, critical_nets, constraints) ==
    LET critical == CriticalComponents(components, CriticalPins(critical_nets), <<>>)
        k == Len(critical)
        center_x == constraints.board_width \div 2
        center_y == constraints.board_height \div 2
        Rank(i) == CHOOSE r \in 1..k : critical[r] = i
    IN  [i \in 1..Len(components) |->
            IF i \in Range(critical)
            THEN [components[i] EXCEPT
                    !.critical_timing = TRUE,
                    !.x = center_x + CircleOffsets(k)[Rank(i)][1],
                    !.y = center_y + CircleOffsets(k)[Rank(i)][2],
                    !.placed_by = "circle"]
            ELSE components[i]]

---------------------------------------------------------------------------
(* AdvancedRouter *)

\* _estimate_route_length(net), in mm
EstimateRouteLength(net) == 20 + Len(net.pins) * 5

\* a bug: the interpolation without its lower limit of 0.1 mm
CalculateDiffPairGeometryUnclamped(impedance) ==
    IF impedance = 100 THEN <<200, 200>>
    ELSE IF impedance = 90 THEN <<250, 150>>
    ELSE <<200 + (100 - impedance), 200 - (100 - impedance)>>

\* _calculate_diff_pair_geometry(impedance): <<width, spacing>> in 0.001 mm
CalculateDiffPairGeometry(impedance) ==
    IF impedance = 100 THEN <<200, 200>>
    ELSE IF impedance = 90 THEN <<250, 150>>
    ELSE <<Max(200 + (100 - impedance), 100), Max(200 - (100 - impedance), 100)>>

\* `d[entry.net_name] = entry` on a dict kept as the sequence of its values in
\* insertion order: a known key keeps its place and takes the new value
PutEntry(entries, e) ==
    IF \E i \in 1..Len(entries) : entries[i].net_name = e.net_name
    THEN [entries EXCEPT
            ![CHOOSE i \in 1..Len(entries) : entries[i].net_name = e.net_name] = e]
    ELSE Append(entries, e)

RECURSIVE PutEntries(_, _)
PutEntries(entries, es) ==
    IF es = <<>> THEN entries
    ELSE PutEntries(PutEntry(entries, Head(es)), Tail(es))

\* differential_pair_routing(pairs, impedance_target): the result dict
DifferentialPairRouting(pairs, impedance_target, constraints) ==
    LET flagged == SelectSeq(pairs, LAMBDA n : n.differential_pair)
    IN  PutEntries(<<>>,
            [i \in 1..Len(flagged) |->
                [net_name |-> flagged[i].name,
                 trace_width |-> CalculateDiffPairGeometry(impedance_target)[1],
                 trace_spacing |-> CalculateDiffPairGeometry(impedance_target)[2],
                 impedance |-> impedance_target,
                 total_length |-> EstimateRouteLength(flagged[i]),
                 layer_changes |-> IF constraints.layer_count > 2 THEN 1 ELSE 0]])

\* (current / (0.048 * 10 ** 0.44)) ** (1 / 0.725) * 0.0254 in 0.001 mm, for
\* the currents (mA) the model supplies, rounded to the nearest unit
Ipc2221Width(current) ==
    CASE current = 0 -> 0
      [] current = 100 -> 17
      [] current = 500 -> 159
      [] current = 1000 -> 414
      [] current = 2000 -> 1077

\* a bug: the IPC-2221 width without the floor of min_trace_width
CalculatePowerTraceWidthNoFloor(current, constraints) == Ipc2221Width(current)

\* _calculate_power_trace_width(current)
CalculatePowerTraceWidth(current, constraints) ==
    Max(Ipc2221Width(current), constraints.min_trace_width)

\* _estimate_voltage_drop(net, current, trace_width), in 0.01 V
EstimateVoltageDrop(net, current, trace_width) ==
    (current * 17 * EstimateRouteLength(net) * 100) \div (trace_width * 35)

\* _place_decoupling_caps(net): one capacitor per pin whose component
\* reference holds "IC" or "U"
PlaceDecouplingCaps(net) ==
    LET refs == [i \in 1..Len(net.pins) |-> net.pins[i][1]]
        near == SelectSeq(refs, LAMBDA r : Contains(r, <<"I","C">>) \/ Contains(r, <<"U">>))
    IN  [i \in 1..Len(near) |->
            [value |-> "100nF", package |-> "0603", placement |-> near[i]]]

\* the nets power_distribution_network does not skip
PdnAccepts(net) == StartsWithAny(net.name, {sVCC, <<"V","D","D">>, <<"G","N","D">>, <<"+">>, <<"-">>})

\* current_requirements.get(net.name, 0.1), in mA
CurrentReq(current_requirements, net) ==
    IF net.name \in DOMAIN current_requirements THEN current_requirements[net.name]
    ELSE 100

\* the exceptions of one pass of the loop body: a negative current makes the
\* power of line 302 complex and max() raises TypeError; a trace width of 0
\* makes the division of _estimate_voltage_drop raise ZeroDivisionError
PdnNetRaises(net, current_requirements, constraints) ==
    LET current_req == CurrentReq(current_requirements, net)
    IN  \/ current_req < 0
        \/ CalculatePowerTraceWidth(current_req, constraints) = 0

\* power_distribution_network has no handler: the first exception ends it
PdnRaises(power_nets, current_requirements, constraints) ==
    \E i \in 1..Len(power_nets) :
        /\ PdnAccepts(power_nets[i])
        /\ PdnNetRaises(power_nets[i], current_requirements, constraints)

\* pdn_results[net.name] of one accepted net.  The keys of the nested
\* 'design' dict are fields of the entry itself; a key the code leaves out of
\* the dict (via_stitching and decoupling_caps below 4 layers, pour_zones
\* from 4 layers on) is FALSE or the empty list.
PdnEntry(net, current_requirements, constraints) ==
    LET current_req == CurrentReq(current_requirements, net)
        trace_width == CalculatePowerTraceWidth(current_req, constraints)
        plane == constraints.layer_count >= 4
    IN  [net_name |-> net.name,
         current_capacity |-> current_req,
         trace_width |-> trace_width,
         voltage_drop |-> EstimateVoltageDrop(net, current_req, trace_width),
         use_plane |-> plane,
         via_stitching |-> plane,
         pour_zones |-> ~plane,
         decoupling_caps |-> IF plane THEN PlaceDecouplingCaps(net) ELSE <<>>]

\* power_distribution_network(power_nets, current_requirements) when no
\* exception ends it: the result dict
PowerDistributionNetwork(power_nets, current_requirements, constraints) ==
    LET routed == SelectSeq(power_nets, PdnAccepts)
    IN  PutEntries(<<>>, [i \in 1..Len(routed) |->
                            PdnEntry(routed[i], current_requirements, constraints)])

---------------------------------------------------------------------------
(* AdvancedDRC *)

RECURSIVE PairsFrom(_, _, _)
PairsFrom(i, j, n) ==
    IF i >= n THEN <<>>
    ELSE IF j > n THEN PairsFrom(i + 1, i + 2, n)
    ELSE <<<<i, j>>>> \o PairsFrom(i, j + 1, n)

\* the index pairs of `for i, a in enumerate(l): for b in l[i+1:]`
AllPairs(n) == PairsFrom(1, 2, n)

PairDist2(l, pr) == Dist2(l[pr[1]].x, l[pr[1]].y, l[pr[2]].x, l[pr[2]].y)

\* a bug: only nets without any pin are reported (`< 1` for `< 2`)
CheckElectricalConnectivityOffByOne(pcb_design) ==
    LET under == SelectSeq(pcb_design.nets, LAMBDA n : Len(n.pins) < 1)
    IN  [violations |-> [i \in 1..Len(under) |->
                            [kind |-> "insufficient_connections",
                             subject |-> <<under[i].name>>]],
         warnings |-> <<>>]

\* _check_electrical_connectivity(pcb_design)
CheckElectricalConnectivity(pcb_design) ==
    LET under == SelectSeq(pcb_design.nets, LAMBDA n : Len(n.pins) < 2)
        comps == pcb_design.components
        close == SelectSeq(AllPairs(Len(comps)),
                           LAMBDA pr : PairDist2(comps, pr) < 200 * 200)
    IN  [violations |-> [i \in 1..Len(under) |->
                            [kind |-> "insufficient_connections",
                             subject |-> <<under[i].name>>]],
         warnings |-> [i \in 1..Len(close) |->
                            [kind |-> "too_close",
                             subject |-> <<comps[close[i][1]].reference,
                                           comps[close[i][2]].reference>>]]]

\* _check_manufacturing_constraints(pcb_design); self_constraints is the
\* constraints object the checker was constructed with
CheckManufacturingConstraints(self_constraints, pcb_design) ==
    [violations |->
        (IF self_constraints.min_trace_width < 100
         THEN <<[kind |-> "trace_width_below_limit", subject |-> <<>>]>> ELSE <<>>)
        \o
        (IF self_constraints.min_via_size < 200
         THEN <<[kind |-> "via_size_below_limit", subject |-> <<>>]>> ELSE <<>>),
     warnings |->
        IF pcb_design.constraints.board_width > 20000
           \/ pcb_design.constraints.board_height > 20000
        THEN <<[kind |-> "large_board", subject |-> <<>>]>> ELSE <<>>]

\* the message of one net in _check_signal_integrity_rules, <<>> for none
ImpedanceWarning(net) ==
    IF net.impedance_target # NoImpedance /\ net.impedance_target # 0
       /\ net.impedance_target > 0
    THEN IF ~net.differential_pair /\ net.impedance_target < 50
         THEN <<[kind |-> "unusual_single_ended", subject |-> <<net.name>>]>>
         ELSE IF net.differential_pair
                 /\ (net.impedance_target < 90 \/ net.impedance_target > 110)
         THEN <<[kind |-> "unusual_differential", subject |-> <<net.name>>]>>
         ELSE <<>>
    ELSE <<>>

RECURSIVE ImpedanceWarnings(_)
ImpedanceWarnings(nets) ==
    IF nets = <<>> THEN <<>>
    ELSE ImpedanceWarning(Head(nets)) \o ImpedanceWarnings(Tail(nets))

\* Whether max_distance of the k positions signal_integrity_placement
\* computes around (center_x, center_y) is above 30 in the double arithmetic
\* of the source (lines 147-150 and 440-441).  Two opposite positions are
\* exactly one diameter, 30 mm, apart; the rounded cosines, sums and square
\* root give 30.000000000000004 for some k and centers.  Tabulated by that
\* arithmetic for 2 to 7 positions and the board centers of this module.
CircleSpanExceeds(k, center_x, center_y) ==
    LET center == <<center_x, center_y>>
    IN  CASE k \in {2, 3, 4, 5, 7}
              /\ center \in {<<4000, 3000>>, <<1000, 1000>>, <<12500, 3000>>,
                              <<0, 3000>>, <<5000, 4000>>} -> FALSE
          [] k = 6 /\ center \in {<<4000, 3000>>, <<1000, 1000>>, <<0, 3000>>,
                                   <<5000, 4000>>} -> TRUE
          [] k = 6 /\ center = <<12500, 3000>> -> FALSE

\* _check_signal_integrity_rules(pcb_design).  Positions are exact in units
\* of 0.01 mm except those on the circle of the signal-integrity placement,
\* whose span is judged as the double arithmetic judges it; the position at
\* angle 0 is the rightmost one and gives the center of the circle.
CheckSignalIntegrityRules(pcb_design) ==
    LET critical == SelectSeq(pcb_design.components, LAMBDA c : c.critical_timing)
        on_circle == \A i \in 1..Len(critical) : critical[i].placed_by = "circle"
        first == CHOOSE i \in 1..Len(critical) :
                    \A j \in 1..Len(critical) : critical[j].x <= critical[i].x
        far == \/ \E pr \in Range(AllPairs(Len(critical))) :
                    PairDist2(critical, pr) > 3000 * 3000
               \/ /\ on_circle
                  /\ CircleSpanExceeds(Len(critical),
                                       critical[first].x - CIRCLE_RADIUS,
                                       critical[first].y)
    IN  [violations |-> <<>>,
         warnings |-> ImpedanceWarnings(pcb_design.nets)
                      \o (IF Len(critical) > 1 /\ far
                          THEN <<[kind |-> "critical_far_apart", subject |-> <<>>]>>
                          ELSE <<>>)]

\* min_distance = 5.0 + (comp1.thermal_power + comp2.thermal_power) * 2.0
DrcThermalMinDistance(comp1, comp2) ==
    500 + (comp1.thermal_power + comp2.thermal_power) \div 5

\* a bug: high-power components too close to each other are violations
CheckThermalManagementStrict(pcb_design) ==
    LET high == SelectSeq(pcb_design.components, LAMBDA c : c.thermal_power > 500)
        tight == SelectSeq(AllPairs(Len(high)),
                    LAMBDA pr : PairDist2(high, pr)
                        < DrcThermalMinDistance(high[pr[1]], high[pr[2]])
                          * DrcThermalMinDistance(high[pr[1]], high[pr[2]]))
    IN  [violations |-> [i \in 1..Len(tight) |->
                            [kind |-> "thermal_spacing",
                             subject |-> <<high[tight[i][1]].reference,
                                           high[tight[i][2]].reference>>]],
         warnings |-> <<>>]

\* _check_thermal_management(pcb_design)
CheckThermalManagement(pcb_design) ==
    LET high == SelectSeq(pcb_design.components, LAMBDA c : c.thermal_power > 500)
        tight == SelectSeq(AllPairs(Len(high)),
                    LAMBDA pr : PairDist2(high, pr)
                        < DrcThermalMinDistance(high[pr[1]], high[pr[2]])
                          * DrcThermalMinDistance(high[pr[1]], high[pr[2]]))
        total_power == SeqSum([i \in 1..Len(pcb_design.components) |->
                                    pcb_design.components[i].thermal_power])
    IN  [violations |-> <<>>,
         warnings |-> [i \in 1..Len(tight) |->
                            [kind |-> "thermal_spacing",
                             subject |-> <<high[tight[i][1]].reference,
                                           high[tight[i][2]].reference>>]]
                      \o (IF total_power > 2000 /\ pcb_design.constraints.layer_count >= 4
                          THEN <<[kind |-> "thermal_vias", subject |-> <<>>]>>
                          ELSE <<>>)]

\* a bug: warnings block the pass flag too
DrcPassNoFindings(violations, warnings) == Len(violations) = 0 /\ Len(warnings) = 0

\* `'pass': len(violations) == 0`
DrcPass(violations, warnings) == Len(violations) = 0

\* comprehensive_rule_check(pcb_design)
ComprehensiveRuleCheck(self_constraints, pcb_design) ==
    LET electrical_check == CheckElectricalConnectivity(pcb_design)
        manufacturing_check == CheckManufacturingConstraints(self_constraints, pcb_design)
        si_check == CheckSignalIntegrityRules(pcb_design)
        thermal_check == CheckThermalManagement(pcb_design)
        violations == electrical_check.violations \o manufacturing_check.violations
                      \o si_check.violations \o thermal_check.violations
        warnings == electrical_check.warnings \o manufacturing_check.warnings
                    \o si_check.warnings \o thermal_check.warnings
    IN  [violations |-> violations, warnings |-> warnings,
         violation_count |-> Len(violations), warning_count |-> Len(warnings),
         pass |-> DrcPass(violations, warnings)]

NoDrcResults ==
    [violations |-> <<>>, warnings |-> <<>>, violation_count |-> 0,
     warning_count |-> 0, pass |-> FALSE]

---------------------------------------------------------------------------
(* IntelligentBOM *)

\* _group_components(components): the groups dict as the sequence of its
\* [key, members] items in insertion order; the key is the category alone
RECURSIVE GroupComponents(_, _)
GroupComponents(components, groups) ==
    IF components = <<>> THEN groups
    ELSE LET component == Head(components)
             group_key == component.component_type
             known == \E i \in 1..Len(groups) : groups[i].key = group_key
             groups1 == IF known THEN groups
                        ELSE Append(groups, [key |-> group_key, members |-> <<>>])
             k == CHOOSE i \in 1..Len(groups1) : groups1[i].key = group_key
         IN  GroupComponents(Tail(components),
                             [groups1 EXCEPT ![k].members = Append(@, component)])

\* _get_component_info(component)['part_number']
PartNumber(component) ==
    CASE component.component_type = "resistor" -> "RC0603FR-07220RL"
      [] component.component_type = "capacitor" -> "GRM188R71H104KA93D"
      [] component.component_type = "led" -> "APT1608EC"
      [] component.component_type = "microcontroller" -> "A000066"
      [] OTHER -> "TBD"

\* _get_pricing_info(component_info)['unit_cost'], in cents
UnitCost(part_number) ==
    CASE part_number = "RC0603FR-07220RL" -> 2
      [] part_number = "GRM188R71H104KA93D" -> 5
      [] part_number = "APT1608EC" -> 15
      [] part_number = "A000066" -> 2500
      [] OTHER -> 100

\* a bug: the line total forgets the quantity
BomEntryUnitOnly(group) ==
    LET part == PartNumber(group.members[1])
    IN  [group_id |-> group.key,
         references |-> [i \in 1..Len(group.members) |-> group.members[i].reference],
         quantity |-> Len(group.members),
         component_type |-> group.members[1].component_type,
         part_number |-> part,
         unit_cost |-> UnitCost(part),
         total_cost |-> UnitCost(part)]

\* the bom_entry of one group
BomEntry(group) ==
    LET part == PartNumber(group.members[1])
    IN  [group_id |-> group.key,
         references |-> [i \in 1..Len(group.members) |-> group.members[i].reference],
         quantity |-> Len(group.members),
         component_type |-> group.members[1].component_type,
         part_number |-> part,
         unit_cost |-> UnitCost(part),
         total_cost |-> UnitCost(part) * Len(group.members)]

\* _generate_supplier_recommendations(bom_data)
SupplierRecommendations(total_cost) ==
    (IF total_cost < 5000 THEN <<"LCSC">> ELSE <<>>)
    \o (IF total_cost > 10000 THEN <<"DigiKey">> ELSE <<>>)
    \o <<"Mouser">>

\* _find_alternative_components(components)
FindAlternativeComponents(entries) ==
    LET dear == SelectSeq(entries, LAMBDA e : e.unit_cost > 100)
    IN  [i \in 1..Len(dear) |->
            [original_part |-> dear[i].part_number,
             cost_savings |-> dear[i].unit_cost \div 5]]

\* generate_optimized_bom(components)
GenerateOptimizedBom(components) ==
    LET component_groups == GroupComponents(components, <<>>)
        entries == [i \in 1..Len(component_groups) |-> BomEntry(component_groups[i])]
        total == SeqSum([i \in 1..Len(entries) |-> entries[i].total_cost])
    IN  [components |-> entries,
         total_cost |-> total,
         supplier_recommendations |-> SupplierRecommendations(total),
         alternatives |-> FindAlternativeComponents(entries)]

NoBom ==
    [components |-> <<>>, total_cost |-> 0, supplier_recommendations |-> <<>>,
     alternatives |-> <<>>]

---------------------------------------------------------------------------
(* ManufacturingOutputs: the files of one project *)

\* the (key, file name suffix) pairs of generate_gerber_files
GerberSuffixes ==
    <<<<"F.Cu", <<"-","F","_","C","u",".","g","b","r">>>>,
      <<"B.Cu", <<"-","B","_","C","u",".","g","b","r">>>>,
      <<"F.SilkS", <<"-","F","_","S","i","l","k","S",".","g","b","r">>>>,
      <<"B.SilkS", <<"-","B","_","S","i","l","k","S",".","g","b","r">>>>,
      <<"F.Mask", <<"-","F","_","M","a","s","k",".","g","b","r">>>>,
      <<"B.Mask", <<"-","B","_","M","a","s","k",".","g","b","r">>>>,
      <<"Edge.Cuts", <<"-","E","d","g","e","_","C","u","t","s",".","g","b","r">>>>,
      <<"drill", <<".","d","r","l">>>>,
      <<"pick_place", <<"-","t","o","p","-","p","o","s",".","c","s","v">>>>>>

\* the (key, file name suffix) pairs of generate_assembly_drawings
AssemblySuffixes ==
    <<<<"assembly_drawing", <<"-","a","s","s","e","m","b","l","y",".","t","x","t">>>>,
      <<"assembly_notes", <<"-","a","s","s","e","m","b","l","y","-","n","o","t","e","s",
                            ".","t","x","t">>>>,
      <<"test_points", <<"-","t","e","s","t","-","p","o","i","n","t","s",
                         ".","t","x","t">>>>>>

\* the components of a path string between its "/" separators
RECURSIVE SplitPath(_, _, _)
SplitPath(s, cur, parts) ==
    IF s = <<>> THEN Append(parts, cur)
    ELSE IF Head(s) = "/" THEN SplitPath(Tail(s), <<>>, Append(parts, cur))
    ELSE SplitPath(Tail(s), Append(cur, Head(s)), parts)

\* `self.output_dir / f"{project_name}{suffix}"` of pathlib, as the sequence
\* of the components of the resulting path; name_parts are the components of
\* project_name, and the suffix (which holds no separator) extends the last
\* one.  Empty and "." components of the file name are dropped, and an
\* absolute file name replaces the directory.
PathJoin(output_dir, name_parts, suffix) ==
    LET n == Len(name_parts)
        raw == [name_parts EXCEPT ![n] = @ \o suffix]
        parts == SelectSeq(raw, LAMBDA q : q # <<>> /\ q # <<".">>)
    IN  IF n > 1 /\ name_parts[1] = <<>> THEN <<<<"/">>>> \o parts
        ELSE <<output_dir>> \o parts

\* the returned dict of either generator: key -> path under the output dir
OutputFiles(suffixes, project_name) ==
    LET name_parts == SplitPath(project_name, <<>>, <<>>)
    IN  [i \in 1..Len(suffixes) |->
            [key |-> suffixes[i][1],
             path |-> PathJoin(<<"o","u","t","p","u","t">>, name_parts,
                               suffixes[i][2])]]

generate_gerber_files(project_name) == OutputFiles(GerberSuffixes, project_name)
generate_assembly_drawings(project_name) == OutputFiles(AssemblySuffixes, project_name)

\* _generate_gerber_layer(pcb_design, layer_type): the lines between the
\* fixed header (which names the layer) and the closing M02.  Coordinates are
\* int(mm * 1000000), here 0.01 mm * 10000.
GenerateGerberLayer(pcb_design, layer) ==
    LET top == SelectSeq(pcb_design.components,
                         LAMBDA c : c.layer = "F.Cu" \/ c.layer = "top")
        outline == pcb_design.board_outline
        w == pcb_design.constraints.board_width * 10000
        h == pcb_design.constraints.board_height * 10000
        Line(x, y, d) == [x |-> x, y |-> y, d |-> d]
    IN  [file_function |-> layer,
         lines |->
            IF layer = "F.Cu"
            THEN [i \in 1..Len(top) |->
                    Line(top[i].x * 10000, top[i].y * 10000, "D03")]
            ELSE IF layer = "Edge.Cuts"
            THEN IF outline # <<>>
                 THEN [i \in 1..Len(outline) |->
                        Line(outline[i][1] * 10000, outline[i][2] * 10000,
                             IF i = 1 THEN "D02" ELSE "D01")]
                 ELSE <<Line(0, 0, "D02"), Line(w, 0, "D01"), Line(w, h, "D01"),
                        Line(0, h, "D01"), Line(0, 0, "D01")>>
            ELSE <<>>]

\* the contents generate_gerber_files writes, by key: the seven layers, the
\* drill listing (inches, 4 decimals) and the pick-and-place table (mm, 3
\* decimals)
GerberContents(pcb_design) ==
    LET cs == pcb_design.components
        Inch4(v) == (v * 2000 + 254) \div 508
    IN  [k \in {GerberSuffixes[i][1] : i \in 1..Len(GerberSuffixes)} |->
            IF k = "drill"
            THEN [i \in 1..Len(cs) |-> <<Inch4(cs[i].x), Inch4(cs[i].y)>>]
            ELSE IF k = "pick_place"
            THEN [i \in 1..Len(cs) |->
                    [ref |-> cs[i].reference, val |-> cs[i].component_type,
                     package |-> "0603", pos_x |-> cs[i].x * 10,
                     pos_y |-> cs[i].y * 10, rot |-> cs[i].rotation * 10,
                     side |-> IF cs[i].layer \in {"F.Cu", "top"}
                              THEN "top" ELSE "bottom"]]
            ELSE GenerateGerberLayer(pcb_design, k)]

\* The component types _generate_assembly_notes writes a line for.
NoteTypes == {"microcontroller", "led", "crystal"}

\* _generate_assembly_notes(pcb_design).  The loop runs over
\* set(c.component_type ...): the order of a set of enum members follows
\* their hashes, which the interpreter salts per process.  set_order is the
\* order the running process gives the note-writing types.
GenerateAssemblyNotes(pcb_design, set_order) ==
    LET cs == pcb_design.components
        component_types == {cs[i].component_type : i \in 1..Len(cs)}
    IN  [component_notes |-> SelectSeq(set_order, LAMBDA t : t \in component_types),
         thermal_considerations |->
            \E i \in 1..Len(cs) : cs[i].thermal_power > HIGH_POWER_MW]

\* the contents generate_assembly_drawings writes, by key
AssemblyContents(pcb_design, set_order) ==
    LET cs == pcb_design.components
        power_nets == SelectSeq(pcb_design.nets,
                                LAMBDA net : ContainsAny(Upper(net.name), PowerKeywords))
    IN  [assembly_drawing |->
            [board_width |-> pcb_design.constraints.board_width,
             board_height |-> pcb_design.constraints.board_height,
             layer_count |-> pcb_design.constraints.layer_count,
             placement |-> [i \in 1..Len(cs) |->
                             <<cs[i].reference, cs[i].x \div 10, cs[i].y \div 10,
                               cs[i].rotation, cs[i].component_type>>]],
         assembly_notes |-> GenerateAssemblyNotes(pcb_design, set_order),
         test_points |-> [i \in 1..Len(power_nets) |-> power_nets[i].name]]

---------------------------------------------------------------------------
(* PCBLayoutEngine.generate_pcb_layout as a state machine *)

Calls == {1, 2}

NoResult ==
    [kind |-> "none", success |-> FALSE, error |-> "", project_name |-> <<>>,
     component_count |-> 0, board_utilization |-> 0, thermal_zones |-> <<>>,
     differential_pairs |-> <<>>, power_distribution |-> <<>>, total_nets |-> 0,
     drc_results |-> NoDrcResults, manufacturing_files |-> <<>>,
     assembly_documentation |-> <<>>, bom |-> NoBom]

\* the dict of the `except Exception` branch
FailureResult(error, project_name) ==
    [NoResult EXCEPT !.kind = "failure", !.success = FALSE, !.error = error,
                     !.project_name = project_name]

NoDesign == PCBDesign(<<>>, <<>>, DefaultConstraints)

\* The frame of one call.  pc names the next stage; stages, used and wrote
\* are history: the stages entered, the constraints each engine-held object
\* worked with, and the paths this call wrote.
NewFrame(circuit_data, project_name, pc) ==
    [pc |-> pc, circuit_data |-> circuit_data, project_name |-> project_name,
     pcb_design |-> NoDesign, routing_results |-> <<>>, pdn_results |-> <<>>,
     drc_results |-> NoDrcResults, gerber_files |-> <<>>, assembly_docs |-> <<>>,
     bom_data |-> NoBom, result |-> NoResult,
     stages |-> <<>>, used |-> <<>>, wrote |-> {}]

\* a bug: the isinstance guard is missing
IsMappingUnchecked(circuit_data) == circuit_data.kind = circuit_data.kind

\* `isinstance(circuit_data, dict)`
IsMapping(circuit_data) == circuit_data.kind = "dict"

\* `'success': drc_results['pass']` of the compiled result
LayoutSuccess(drc_results) == drc_results.pass

\* _calculate_board_utilization(pcb_design), in percent; the division raises
\* ZeroDivisionError for a board of area 0
UtilizationRaises(pcb_design) ==
    pcb_design.constraints.board_width * pcb_design.constraints.board_height = 0

CalculateBoardUtilization(pcb_design) ==
    Min((Len(pcb_design.components) * 4000000)
            \div (pcb_design.constraints.board_width
                  * pcb_design.constraints.board_height),
        100)

\* _identify_thermal_zones(pcb_design)
IdentifyThermalZones(pcb_design) ==
    LET hot == SelectSeq(pcb_design.components, LAMBDA c : c.thermal_power > 200)
    IN  [i \in 1..Len(hot) |->
            [component |-> hot[i].reference, center_x |-> hot[i].x,
             center_y |-> hot[i].y, power |-> hot[i].thermal_power,
             radius |-> 500 + hot[i].thermal_power]]

\* the power_nets comprehension of generate_pcb_layout
PowerNets(nets) ==
    SelectSeq(nets, LAMBDA n : ContainsAny(Upper(n.name), PowerKeywords))

\* validation and _parse_circuit_data (lines 931-937)
Parse(c) ==
    LET f == frames[c]
        parsed == ParseCircuitData(f.circuit_data.body)
    IN  /\ f.pc = "parse"
        /\ frames' = [frames EXCEPT ![c] =
              IF ~IsMapping(f.circuit_data)
              THEN [f EXCEPT !.pc = "done",
                             !.result = FailureResult("Expected dict for circuit_data",
                                                       f.project_name)]
              ELSE IF parsed.raised
              THEN [f EXCEPT !.pc = "done", !.stages = Append(@, "Parse"),
                             !.result = FailureResult(parsed.error, f.project_name)]
              ELSE [f EXCEPT !.pc = "init", !.stages = Append(@, "Parse"),
                             !.pcb_design = parsed.design]]
        /\ UNCHANGED <<engine, fs, unit>>

\* self.placer, self.router, self.drc = ...(pcb_design.constraints)
InitEngines(c) ==
    LET f == frames[c]
    IN  /\ f.pc = "init"
        /\ engine' = [placer |-> f.pcb_design.constraints,
                      router |-> f.pcb_design.constraints,
                      drc |-> f.pcb_design.constraints]
        /\ frames' = [frames EXCEPT ![c].pc = "place_thermal"]
        /\ UNCHANGED <<fs, unit>>

\* pcb_design.components = self.placer.thermal_aware_placement(...)
PlaceThermal(c) ==
    LET f == frames[c]
    IN  /\ f.pc = "place_thermal"
        /\ \E placed \in ThermalAwarePlacement(f.pcb_design.components, engine.placer) :
              frames' = [frames EXCEPT ![c] =
                  [f EXCEPT !.pc = "place_signal",
                            !.pcb_design.components = placed,
                            !.stages = Append(@, "PlaceThermal"),
                            !.used = Append(@, <<"placer", engine.placer>>)]]
        /\ UNCHANGED <<engine, fs, unit>>

\* pcb_design.components = self.placer.signal_integrity_placement(...)
PlaceSignal(c) ==
    LET f == frames[c]
        critical_nets == SelectSeq(f.pcb_design.nets, LAMBDA n : n.priority > 5)
    IN  /\ f.pc = "place_signal"
        /\ frames' = [frames EXCEPT ![c] =
              [f EXCEPT !.pc = "route_diff",
                        !.pcb_design.components =
                            SignalIntegrityPlacement(@, critical_nets, engine.placer),
                        !.stages = Append(@, "PlaceSignal"),
                        !.used = Append(@, <<"placer", engine.placer>>)]]
        /\ UNCHANGED <<engine, fs, unit>>

\* routing_results = self.router.differential_pair_routing(diff_pairs)
RouteDiffPairs(c) ==
    LET f == frames[c]
        diff_pairs == SelectSeq(f.pcb_design.nets, LAMBDA n : n.differential_pair)
    IN  /\ f.pc = "route_diff"
        /\ frames' = [frames EXCEPT ![c] =
              [f EXCEPT !.pc = "route_pdn",
                        !.routing_results =
                            DifferentialPairRouting(diff_pairs, 100, engine.router),
                        !.stages = Append(@, "RouteDiffPairs"),
                        !.used = Append(@, <<"router", engine.router>>)]]
        /\ UNCHANGED <<engine, fs, unit>>

\* pdn_results = self.router.power_distribution_network(power_nets, {...: 0.5})
RoutePdn(c) ==
    LET f == frames[c]
        power_nets == PowerNets(f.pcb_design.nets)
        current_requirements ==
            [n \in {power_nets[i].name : i \in 1..Len(power_nets)} |-> 500]
    IN  /\ f.pc = "route_pdn"
        /\ frames' = [frames EXCEPT ![c] =
              IF PdnRaises(power_nets, current_requirements, engine.router)
              THEN [f EXCEPT !.pc = "done",
                             !.used = Append(@, <<"router", engine.router>>),
                             !.result = FailureResult("float division by zero",
                                                       f.project_name)]
              ELSE [f EXCEPT !.pc = "drc",
                        !.pdn_results =
                            PowerDistributionNetwork(power_nets, current_requirements,
                                                     engine.router),
                        !.stages = Append(@, "RoutePdn"),
                        !.used = Append(@, <<"router", engine.router>>)]]
        /\ UNCHANGED <<engine, fs, unit>>

\* drc_results = self.drc.comprehensive_rule_check(pcb_design)
Drc(c) ==
    LET f == frames[c]
    IN  /\ f.pc = "drc"
        /\ frames' = [frames EXCEPT ![c] =
              [f EXCEPT !.pc = "files",
                        !.drc_results = ComprehensiveRuleCheck(engine.drc, f.pcb_design),
                        !.stages = Append(@, "Drc"),
                        !.used = Append(@, <<"drc", engine.drc>>)]]
        /\ UNCHANGED <<engine, fs, unit>>

\* generate_gerber_files and generate_assembly_drawings
GenerateFiles(c) ==
    LET f == frames[c]
        gerber_files == generate_gerber_files(f.project_name)
        assembly_docs == generate_assembly_drawings(f.project_name)
        paths == {gerber_files[i].path : i \in 1..Len(gerber_files)}
                 \cup {assembly_docs[i].path : i \in 1..Len(assembly_docs)}
    IN  /\ f.pc = "files"
        /\ fs' = [p \in DOMAIN fs \cup paths |-> IF p \in paths THEN c ELSE fs[p]]
        /\ frames' = [frames EXCEPT ![c] =
              [f EXCEPT !.pc = "bom",
                        !.gerber_files = gerber_files,
                        !.assembly_docs = assembly_docs,
                        !.wrote = @ \cup paths,
                        !.stages = Append(@, "GenerateFiles")]]
        /\ UNCHANGED <<engine, unit>>

\* bom_data = self.bom_generator.generate_optimized_bom(pcb_design.components)
GenerateBom(c) ==
    LET f == frames[c]
    IN  /\ f.pc = "bom"
        /\ frames' = [frames EXCEPT ![c] =
              [f EXCEPT !.pc = "summarize",
                        !.bom_data = GenerateOptimizedBom(f.pcb_design.components),
                        !.stages = Append(@, "GenerateBom")]]
        /\ UNCHANGED <<engine, fs, unit>>

\* the compiled layout_results (lines 978-1001)
Summarize(c) ==
    LET f == frames[c]
    IN  /\ f.pc = "summarize"
        /\ frames' = [frames EXCEPT ![c] =
              IF UtilizationRaises(f.pcb_design)
              THEN [f EXCEPT !.pc = "done",
                             !.result = FailureResult("float division by zero",
                                                       f.project_name)]
              ELSE [f EXCEPT !.pc = "done", !.stages = Append(@, "Summarize"),
                     !.result =
                        [kind |-> "layout",
                         success |-> LayoutSuccess(f.drc_results),
                         error |-> "",
                         project_name |-> f.project_name,
                         component_count |-> Len(f.pcb_design.components),
                         board_utilization |-> CalculateBoardUtilization(f.pcb_design),
                         thermal_zones |-> IdentifyThermalZones(f.pcb_design),
                         differential_pairs |-> f.routing_results,
                         power_distribution |-> f.pdn_results,
                         total_nets |-> Len(f.pcb_design.nets),
                         drc_results |-> f.drc_results,
                         manufacturing_files |-> f.gerber_files,
                         assembly_documentation |-> f.assembly_docs,
                         bom |-> f.bom_data]]]
        /\ UNCHANGED <<engine, fs, unit>>

---------------------------------------------------------------------------
(* The circuit descriptions handed to generate_pcb_layout *)

\* records of the list shape
CompRecords ==
    {[reference |-> sU1, type |-> sMicrocontroller],
     [reference |-> sR1, type |-> sResistor],
     [reference |-> <<"D","1">>, type |-> <<"l","e","d">>]}

CategoryKeys ==
    {sMicrocontroller, sResistor, <<"c","a","p","a","c","i","t","o","r">>, <<"l","e","d">>, <<"c","o","n","n","e","c","t","o","r">>, <<"i","c">>, <<"c","r","y","s","t","a","l">>,
     <<"i","n","d","u","c","t","o","r">>}

\* the `components` section: a list of records, a category -> value mapping,
\* a string (its characters as items), a number, or null
ComponentSections ==
    {[kind |-> "list", items |-> l] : l \in SeqsUpTo(CompRecords, MaxComponents)}
    \cup {[kind |-> "dict",
           items |-> <<[key |-> k, value |-> <<"2","2","0","R">>, is_none |-> FALSE]>>] :
            k \in CategoryKeys}
    \cup {[kind |-> "dict",
           items |-> <<[key |-> sResistor, value |-> <<>>, is_none |-> TRUE],
                       [key |-> <<"l","e","d">>, value |-> <<>>, is_none |-> TRUE]>>],
          [kind |-> "str", items |-> <<>>],
          [kind |-> "str", items |-> <<[char |-> "a"], [char |-> "b"]>>],
          [kind |-> "int", items |-> <<>>],
          [kind |-> "none", items |-> <<>>]}

ConnRecords ==
    {[net |-> sVCC, from |-> sU1, to |-> sR1],
     [net |-> <<"S","I","G">>, from |-> sR1, to |-> <<"D","1">>],
     [net |-> <<"C","L","K">>, from |-> sU1, to |-> sU1]}

ConnectionLists == SeqsUpTo(ConnRecords, MaxConnections)

ConstraintChoices ==
    {<<>>,
     [min_trace_width |-> 50],
     [board_width |-> 2000, board_height |-> 2000],
     [board_width |-> 25000, layer_count |-> 4],
     [board_width |-> 0]}

\* circuit_data: a mapping with any of the three sections, or not a mapping
CircuitInputs ==
    {[kind |-> "dict",
      body |-> [components |-> cs, connections |-> cn, constraints |-> k]] :
        cs \in ComponentSections, cn \in ConnectionLists, k \in ConstraintChoices}
    \cup {[kind |-> "dict", body |-> [connections |-> cn]] : cn \in ConnectionLists}
    \cup {[kind |-> "dict", body |-> <<>>]}
    \cup {[kind |-> k, body |-> <<>>] : k \in {"str", "list", "none", "int"}}

ProjectNames == {<<"c","i","r","c","u","i","t">>, <<"p","2">>}

\* the test_pcb_layout_generation scenario of the specification, section 8
EndToEndInput ==
    [kind |-> "dict",
     body |-> [components |->
                  [kind |-> "list",
                   items |-> <<[reference |-> sU1, type |-> sMicrocontroller],
                               [reference |-> sR1, type |-> sResistor],
                               [reference |-> <<"D","1">>, type |-> <<"l","e","d">>]>>],
               connections |-> <<[net |-> sVCC, from |-> sU1, to |-> sR1],
                                 [net |-> <<"S","I","G">>, from |-> sR1, to |-> <<"D","1">>]>>,
               constraints |-> <<>>]]

IdleFrame == NewFrame([kind |-> "none", body |-> <<>>], <<>>, "idle")

NoUnit ==
    [phase |-> "off", design |-> NoDesign, critical_nets |-> <<>>,
     drc_constraints |-> DefaultConstraints, drc_results |-> NoDrcResults,
     bom |-> NoBom, before |-> <<>>,
     impedance_target |-> 100, current_requirements |-> <<>>, routing |-> <<>>,
     project_name |-> <<>>, set_order |-> <<>>, outputs |-> <<>>]

\* one call on a fresh engine
Init ==
    /\ engine = [placer |-> DefaultConstraints, router |-> DefaultConstraints,
                 drc |-> DefaultConstraints]
    /\ \E cd \in CircuitInputs, pn \in ProjectNames :
          frames = [c \in Calls |-> IF c = 1 THEN NewFrame(cd, pn, "parse")
                                    ELSE IdleFrame]
    /\ fs = <<>>
    /\ unit = NoUnit

Next ==
    \E c \in Calls :
        \/ Parse(c)
        \/ InitEngines(c)
        \/ PlaceThermal(c)
        \/ PlaceSignal(c)
        \/ RouteDiffPairs(c)
        \/ RoutePdn(c)
        \/ Drc(c)
        \/ GenerateFiles(c)
        \/ GenerateBom(c)
        \/ Summarize(c)

Spec == Init /\ [][Next]_vars

---------------------------------------------------------------------------
(* Two calls interleaved on one PCBLayoutEngine, as held by one PCBLayoutTool *)

ConcurrentConstraintChoices ==
    {<<>>, [min_trace_width |-> 50], [board_width |-> 2000, board_height |-> 2000]}

ConcurrentInputs ==
    {[kind |-> "dict",
      body |-> [components |->
                   [kind |-> "list",
                    items |-> <<[reference |-> sU1, type |-> sMicrocontroller],
                                [reference |-> sR1, type |-> sResistor]>>],
                connections |-> <<[net |-> sVCC, from |-> sU1, to |-> sR1]>>,
                constraints |-> k]] : k \in ConcurrentConstraintChoices}

\* the project name of the second request: the first one's, another one, and
\* another spelling of the first one's
ConcurrentProjectNames == ProjectNames \cup {<<".", "/">> \o <<"c","i","r","c","u","i","t">>}

InitConcurrent ==
    /\ engine = [placer |-> DefaultConstraints, router |-> DefaultConstraints,
                 drc |-> DefaultConstraints]
    /\ \E cd1 \in ConcurrentInputs, cd2 \in ConcurrentInputs,
          pn2 \in ConcurrentProjectNames :
          frames = [c \in Calls |-> IF c = 1 THEN NewFrame(cd1, <<"c","i","r","c","u","i","t">>, "parse")
                                    ELSE NewFrame(cd2, pn2, "parse")]
    /\ fs = <<>>
    /\ unit = NoUnit

SpecConcurrent == InitConcurrent /\ [][Next]_vars

---------------------------------------------------------------------------
(* Properties of generate_pcb_layout *)

Done(c) == frames[c].pc = "done"

ParsesWithoutError(c) ==
    /\ IsMapping(frames[c].circuit_data)
    /\ ~ParseCircuitData(frames[c].circuit_data.body).raised

\* C1: every circuit description that is a mapping and parses without error
\* ends in Success: the result has success = true whether DRC passed or not.
C1_SuccessWhateverDrc ==
    \A c \in Calls :
        Done(c) /\ ParsesWithoutError(c) => frames[c].result.success

\* C2: for circuit_data that is not a mapping the call returns (it does not
\* raise) a failure result with success = false, a non-empty error and the
\* given project name, and no stage has run and no file was written.
C2_NonMappingFails ==
    \A c \in Calls :
        Done(c) /\ frames[c].circuit_data.kind # "dict" =>
            /\ frames[c].result.kind = "failure"
            /\ ~frames[c].result.success
            /\ frames[c].result.error # ""
            /\ frames[c].result.project_name = frames[c].project_name
            /\ frames[c].stages = <<>>
            /\ frames[c].wrote = {}

C2_Witness ==
    \E c \in Calls :
        /\ Done(c)
        /\ frames[c].circuit_data.kind = "str"
        /\ frames[c].result.kind = "failure"

ComponentsNotListNorMapping(c) ==
    /\ IsMapping(frames[c].circuit_data)
    /\ "components" \in DOMAIN frames[c].circuit_data.body
    /\ frames[c].circuit_data.body.components.kind \notin {"list", "dict"}

\* C3: whenever the components section is neither a list nor a mapping the
\* call returns success = false with a non-empty error and writes no file.
C3_BadComponentsFail ==
    \A c \in Calls :
        Done(c) /\ ComponentsNotListNorMapping(c) =>
            /\ ~frames[c].result.success
            /\ frames[c].result.error # ""
            /\ frames[c].wrote = {}

\* C4: every engine-held object a call works with (placer, router, checker)
\* carries the constraints parsed from that call's own input.
C4_OwnConstraints ==
    \A c \in Calls :
        \A i \in 1..Len(frames[c].used) :
            frames[c].used[i][2] = frames[c].pcb_design.constraints

\* C10: the end-to-end scenario returns success with 3 components, 2 nets
\* and a non-negative BOM total.
C10_EndToEnd ==
    \A c \in Calls :
        Done(c) /\ frames[c].circuit_data = EndToEndInput =>
            /\ frames[c].result.success
            /\ frames[c].result.component_count = 3
            /\ frames[c].result.total_nets = 2
            /\ frames[c].result.bom.total_cost >= 0

C10_Witness ==
    \E c \in Calls :
        /\ Done(c)
        /\ frames[c].circuit_data = EndToEndInput
        /\ frames[c].result.kind = "layout"
        /\ frames[c].result.bom.total_cost = 2517

---------------------------------------------------------------------------
(* The component-level API driven directly, as the unit tests drive it *)

UnitRef(i) == <<"Q">> \o IntStr(i)
UnitNetName(i) == <<"N">> \o IntStr(i)

\* components handed to ComponentPlacer: thermal power in mW per component
UnitPowers == {50, 500, 600, 3000}

UnitComponents(powers) ==
    [i \in 1..Len(powers) |-> ComponentPlacement(UnitRef(i), "ic", powers[i])]

\* PCBConstraints(board_width=..., board_height=...)
UnitBoards ==
    {[DefaultConstraints EXCEPT !.board_width = 8000, !.board_height = 6000],
     [DefaultConstraints EXCEPT !.board_width = 2000, !.board_height = 2000]}

\* the critical_nets argument of signal_integrity_placement
UnitCriticalNets ==
    {<<>>,
     <<RoutingNet(<<"C","L","K">>, <<<<UnitRef(1), <<"1">>>>>>, 10)>>,
     <<RoutingNet(<<"C","L","K">>, <<<<UnitRef(2), <<"1">>>>, <<UnitRef(1), <<"1">>>>>>, 10)>>,
     <<RoutingNet(<<"C","L","K">>, <<<<UnitRef(2), <<"1">>>>, <<UnitRef(9), <<"1">>>>>>, 10)>>}

InitPlacer ==
    /\ engine = [placer |-> DefaultConstraints, router |-> DefaultConstraints,
                 drc |-> DefaultConstraints]
    /\ frames = [c \in Calls |-> IdleFrame]
    /\ fs = <<>>
    /\ \E powers \in SeqsUpTo(UnitPowers, MaxUnitComponents),
          board \in UnitBoards, nets \in UnitCriticalNets :
          unit = [NoUnit EXCEPT !.phase = "new",
                                !.design = PCBDesign(UnitComponents(powers), <<>>, board),
                                !.critical_nets = nets,
                                !.drc_constraints = board]

\* placer.thermal_aware_placement(components)
UnitThermalPlacement ==
    /\ unit.phase = "new"
    /\ \E placed \in ThermalAwarePlacement(unit.design.components,
                                            unit.design.constraints) :
          unit' = [unit EXCEPT !.phase = "thermal",
                               !.before = unit.design.components,
                               !.design.components = placed]
    /\ UNCHANGED <<engine, frames, fs>>

\* placer.signal_integrity_placement(components, critical_nets)
UnitSignalPlacement ==
    /\ unit.phase = "thermal"
    /\ unit' = [unit EXCEPT
                    !.phase = "signal",
                    !.design.components =
                        SignalIntegrityPlacement(@, unit.critical_nets,
                                                 unit.design.constraints)]
    /\ UNCHANGED <<engine, frames, fs>>

\* drc.comprehensive_rule_check(pcb_design)
UnitRuleCheck ==
    /\ unit.phase \in {"thermal", "signal", "placed"}
    /\ unit' = [unit EXCEPT
                    !.phase = "checked",
                    !.drc_results =
                        ComprehensiveRuleCheck(unit.drc_constraints, unit.design)]
    /\ UNCHANGED <<engine, frames, fs>>

NextPlacer == UnitThermalPlacement \/ UnitSignalPlacement \/ UnitRuleCheck

SpecPlacer == InitPlacer /\ [][NextPlacer]_vars

\* designs handed to AdvancedDRC: components at given positions
DrcSpots == {<<1000, 1000>>, <<1100, 1000>>, <<4000, 3000>>}
DrcPowers == {50, 3000}

DrcComponents(picks) ==
    [i \in 1..Len(picks) |->
        [ComponentPlacement(UnitRef(i), "ic", picks[i][2])
            EXCEPT !.x = picks[i][1][1], !.y = picks[i][1][2]]]

\* the pin lists of the nets: none, one, two on distinct components, two on
\* one component
DrcPinLists ==
    {<<>>,
     <<<<UnitRef(1), <<"1">>>>>>,
     <<<<UnitRef(1), <<"1">>>>, <<UnitRef(2), <<"1">>>>>>,
     <<<<UnitRef(1), <<"1">>>>, <<UnitRef(1), <<"2">>>>>>}

\* the nets of a design, all with the given impedance target
DrcNets(pinlists, target) ==
    [i \in 1..Len(pinlists) |->
        [RoutingNet(UnitNetName(i), pinlists[i], 3) EXCEPT !.impedance_target = target]]

DrcConstraintChoices ==
    {DefaultConstraints,
     [DefaultConstraints EXCEPT !.min_trace_width = 50],
     [DefaultConstraints EXCEPT !.min_via_size = 100, !.board_width = 25000]}

InitDrc ==
    /\ engine = [placer |-> DefaultConstraints, router |-> DefaultConstraints,
                 drc |-> DefaultConstraints]
    /\ frames = [c \in Calls |-> IdleFrame]
    /\ fs = <<>>
    /\ \E picks \in SeqsUpTo(DrcSpots \X DrcPowers, MaxDrcComponents),
          pinlists \in SeqsUpTo(DrcPinLists, MaxDrcNets),
          target \in {NoImpedance, 30},
          k \in DrcConstraintChoices :
          unit = [NoUnit EXCEPT !.phase = "placed",
                                !.design = PCBDesign(DrcComponents(picks),
                                                     DrcNets(pinlists, target), k),
                                !.drc_constraints = k]

NextDrc == UnitRuleCheck

SpecDrc == InitDrc /\ [][NextDrc]_vars

BomComponents(types) ==
    [i \in 1..Len(types) |-> ComponentPlacement(UnitRef(i), types[i], 0)]

InitBom ==
    /\ engine = [placer |-> DefaultConstraints, router |-> DefaultConstraints,
                 drc |-> DefaultConstraints]
    /\ frames = [c \in Calls |-> IdleFrame]
    /\ fs = <<>>
    /\ \E types \in SeqsUpTo(ComponentType, MaxBomComponents) :
          unit = [NoUnit EXCEPT !.phase = "listed",
                                !.design = PCBDesign(BomComponents(types), <<>>,
                                                     DefaultConstraints)]

\* bom_generator.generate_optimized_bom(components)
UnitBom ==
    /\ unit.phase = "listed"
    /\ unit' = [unit EXCEPT !.phase = "costed",
                             !.bom = GenerateOptimizedBom(unit.design.components)]
    /\ UNCHANGED <<engine, frames, fs>>

NextBom == UnitBom

SpecBom == InitBom /\ [][NextBom]_vars

---------------------------------------------------------------------------
(* Claims about the component-level API *)

References(components) == {components[i].reference : i \in 1..Len(components)}

OnBoard(component, constraints) ==
    /\ 0 <= component.x /\ component.x <= constraints.board_width
    /\ 0 <= component.y /\ component.y <= constraints.board_height

\* C5: after thermal_aware_placement followed by signal_integrity_placement
\* the list holds exactly the components it was given, none lost or
\* duplicated, and every one of them lies within
\* [0, board_width] x [0, board_height], whichever path placed it.
C5_PlacedOnBoard ==
    unit.phase = "signal" =>
        /\ Len(unit.design.components) = Len(unit.before)
        /\ References(unit.design.components) = References(unit.before)
        /\ \A i \in 1..Len(unit.design.components) :
              OnBoard(unit.design.components[i], unit.design.constraints)

\* the pairs (i, j), i before j, of components above 0.5 W of the checked
\* design; the thermal placement puts them in this order
HotPairs ==
    {pr \in (1..Len(unit.design.components)) \X (1..Len(unit.design.components)) :
        /\ pr[1] < pr[2]
        /\ unit.design.components[pr[1]].thermal_power > 500
        /\ unit.design.components[pr[2]].thermal_power > 500}

PairPlacedBy(pr) ==
    {unit.design.components[pr[1]].placed_by, unit.design.components[pr[2]].placed_by}

SpacingWarned(pr) ==
    \E w \in Range(unit.drc_results.warnings) :
        /\ w.kind = "thermal_spacing"
        /\ w.subject = <<unit.design.components[pr[1]].reference,
                         unit.design.components[pr[2]].reference>>

\* 10 + 5 x max(power_i), squared
MaxPowerSpacing2(pr) ==
    LET d == 1000 + Max(unit.design.components[pr[1]].thermal_power,
                        unit.design.components[pr[2]].thermal_power) \div 2
    IN  d * d

\* C6: two components above 0.5 W each end at least 10 + 5 x max(power_i)
\* apart when both were placed on the first path (board center, random
\* search); when the fixed fallback position was used and they are closer
\* than that, the thermal check of the DRC warns about the pair.
C6_SpacingOrWarning ==
    unit.phase = "checked" =>
        \A pr \in HotPairs :
            /\ PairPlacedBy(pr) \subseteq {"center", "random"}
                  => PairDist2(unit.design.components, pr) >= MaxPowerSpacing2(pr)
            /\ ( /\ PairPlacedBy(pr) \subseteq {"center", "random", "fallback20"}
                  /\ "fallback20" \in PairPlacedBy(pr)
                  /\ PairDist2(unit.design.components, pr) < MaxPowerSpacing2(pr) )
                  => SpacingWarned(pr)

\* C6, as the code has it: when the later-placed of two components above
\* 0.5 W was placed by the random search, the two are at least
\* 10 + 5 x (power of the later-placed one) apart; and the thermal check warns
\* about a pair exactly when it is closer than 5 + 2 x (power_1 + power_2),
\* whichever path placed the two.
C6_OwnPowerSpacing ==
    unit.phase = "checked" =>
        \A pr \in HotPairs :
            LET later == unit.design.components[pr[2]]
                own == 1000 + later.thermal_power \div 2
                drc == 500 + (unit.design.components[pr[1]].thermal_power
                              + later.thermal_power) \div 5
            IN  /\ ( /\ later.placed_by = "random"
                      /\ unit.design.components[pr[1]].placed_by
                            \in {"center", "random", "fallback20"} )
                      => PairDist2(unit.design.components, pr) >= own * own
                /\ SpacingWarned(pr)
                      <=> PairDist2(unit.design.components, pr) < drc * drc

C6_Witness ==
    /\ unit.phase = "checked"
    /\ \E pr \in HotPairs :
          /\ unit.design.components[pr[1]].placed_by = "center"
          /\ unit.design.components[pr[2]].placed_by = "random"
          /\ unit.design.components[pr[1]].thermal_power
                # unit.design.components[pr[2]].thermal_power
          /\ ~SpacingWarned(pr)

InsufficientConnections ==
    SelectSeq(unit.drc_results.violations,
              LAMBDA v : v.kind = "insufficient_connections")

PinComponents(net) == {net.pins[i][1] : i \in 1..Len(net.pins)}

\* C7: in every result of comprehensive_rule_check, pass holds exactly when
\* violation_count is 0, whatever warning_count is, and the two counts are
\* the lengths of the violations and warnings lists.
C7_PassIffNoViolations ==
    unit.phase = "checked" =>
        /\ unit.drc_results.pass <=> unit.drc_results.violation_count = 0
        /\ unit.drc_results.violation_count = Len(unit.drc_results.violations)
        /\ unit.drc_results.warning_count = Len(unit.drc_results.warnings)

C7_Witness ==
    /\ unit.phase = "checked"
    /\ unit.drc_results.violation_count = 0
    /\ unit.drc_results.warning_count >= 2
    /\ unit.drc_results.pass

\* C8: a net with exactly 1 pin gets an "insufficient connections" violation
\* naming it, a net with 2 or more pins on distinct components gets none, and
\* there is one such violation per net with fewer than 2 pins.
C8_InsufficientConnections ==
    unit.phase = "checked" =>
        /\ \A i \in 1..Len(unit.design.nets) :
              LET net == unit.design.nets[i]
                  named == \E k \in 1..Len(InsufficientConnections) :
                              InsufficientConnections[k].subject = <<net.name>>
              IN  /\ Len(net.pins) = 1 => named
                  /\ (Len(net.pins) >= 2 /\ Cardinality(PinComponents(net)) >= 2)
                        => ~named
        /\ Len(InsufficientConnections)
              = Cardinality({i \in 1..Len(unit.design.nets) :
                                Len(unit.design.nets[i].pins) < 2})

C8_Witness ==
    /\ unit.phase = "checked"
    /\ Len(unit.design.nets) = 2
    /\ Len(unit.design.nets[1].pins) = 1
    /\ Cardinality(PinComponents(unit.design.nets[2])) = 2
    /\ Len(InsufficientConnections) = 1

---------------------------------------------------------------------------
(* Claims about the stages and the files of generate_pcb_layout *)

StageOrder ==
    <<"Parse", "PlaceThermal", "PlaceSignal", "RouteDiffPairs", "RoutePdn", "Drc",
      "GenerateFiles", "GenerateBom", "Summarize">>

IsPrefix(s, t) == Len(s) <= Len(t) /\ \A i \in 1..Len(s) : s[i] = t[i]

\* C13: the stages of a call run in the order Parse, Place(thermal),
\* Place(signal-integrity), Route(diff-pairs), Route(PDN), DRC,
\* Generate(files), Generate(BOM), Summarize, each at most once; and a call
\* in which the DRC ran returns the manufacturing files, the assembly
\* documents and the BOM, whether the DRC passed or failed.
C13_LinearStages ==
    \A c \in Calls :
        /\ IsPrefix(frames[c].stages, StageOrder)
        /\ (Done(c) /\ "Drc" \in Range(frames[c].stages)) =>
              /\ frames[c].result.kind = "layout"
              /\ Len(frames[c].result.manufacturing_files) = Len(GerberSuffixes)
              /\ Len(frames[c].result.assembly_documentation) = Len(AssemblySuffixes)
              /\ frames[c].result.bom = frames[c].bom_data

\* C15: two requests with different project names never write the same file
\* path, in any interleaving.
C15_DistinctPaths ==
    frames[1].project_name # frames[2].project_name
        => frames[1].wrote \cap frames[2].wrote = {}

---------------------------------------------------------------------------
(* AdvancedRouter driven directly, as test_routing_engine drives it *)

MaxRouterNets == 2     \* longest net list handed to the router

\* The router driven as test_routing_engine drives it: up to MaxRouterNets of
\* five nets (two power nets with pins on a microcontroller, an IC, a
\* resistor and a connector, a signal net, a rail named "+5V", and a
\* differential pair), a current requirement in mA for VCC and for GND (the
\* other nets get the default), and a differential impedance target.
InitRouter ==
    LET RouterComponents ==
            <<ComponentPlacement(sU1, "microcontroller", 500),
              ComponentPlacement(<<"I","C","2">>, "ic", 10),
              ComponentPlacement(sR1, "resistor", 50),
              ComponentPlacement(<<"U","S","B","1">>, "connector", 10)>>
        RouterNets ==
            {RoutingNet(sVCC, <<<<sU1, <<"1">>>>, <<sU1, <<"2">>>>, <<sR1, <<"1">>>>>>, 8),
             RoutingNet(<<"G","N","D">>, <<<<<<"I","C","2">>, <<"1">>>>,
                                <<<<"U","S","B","1">>, <<"1">>>>>>, 8),
             RoutingNet(<<"S","I","G">>, <<<<sR1, <<"1">>>>, <<sU1, <<"3">>>>>>, 3),
             RoutingNet(<<"+","5","V">>, <<<<sR1, <<"2">>>>>>, 3),
             [RoutingNet(<<"U","S","B","_","D","P">>,
                         <<<<sU1, <<"D","P">>>>, <<<<"U","S","B","1">>, <<"D","P">>>>>>, 3)
                EXCEPT !.differential_pair = TRUE, !.impedance_target = 90]}
        RouterCurrents == {0 - 500, 0, 500, 2000}
        RouterImpedances == {100, 90, 95, 110, 0, 250}
        RouterConstraintChoices ==
            {DefaultConstraints,
             [DefaultConstraints EXCEPT !.layer_count = 4],
             [DefaultConstraints EXCEPT !.min_trace_width = 0]}
    IN  /\ engine = [placer |-> DefaultConstraints, router |-> DefaultConstraints,
                     drc |-> DefaultConstraints]
        /\ frames = [c \in Calls |-> IdleFrame]
        /\ fs = <<>>
        /\ \E nets \in SeqsUpTo(RouterNets, MaxRouterNets),
              k \in RouterConstraintChoices, z \in RouterImpedances,
              i1 \in RouterCurrents, i2 \in RouterCurrents :
              unit = [NoUnit EXCEPT
                        !.phase = "nets",
                        !.design = PCBDesign(RouterComponents, nets, k),
                        !.impedance_target = z,
                        !.current_requirements = (sVCC :> i1) @@ (<<"G","N","D">> :> i2)]

\* router.differential_pair_routing(nets, impedance_target)
UnitDiffPairRouting ==
    /\ unit.phase = "nets"
    /\ unit' = [unit EXCEPT
                    !.phase = "diff_routed",
                    !.routing = DifferentialPairRouting(unit.design.nets,
                                                        unit.impedance_target,
                                                        unit.design.constraints)]
    /\ UNCHANGED <<engine, frames, fs>>

\* router.power_distribution_network(nets, current_requirements)
UnitPowerDistribution ==
    /\ unit.phase = "nets"
    /\ unit' =
          IF PdnRaises(unit.design.nets, unit.current_requirements,
                       unit.design.constraints)
          THEN [unit EXCEPT !.phase = "pdn_raised"]
          ELSE [unit EXCEPT
                    !.phase = "pdn_routed",
                    !.routing = PowerDistributionNetwork(unit.design.nets,
                                                         unit.current_requirements,
                                                         unit.design.constraints)]
    /\ UNCHANGED <<engine, frames, fs>>

NextRouter == UnitDiffPairRouting \/ UnitPowerDistribution

SpecRouter == InitRouter /\ [][NextRouter]_vars

---------------------------------------------------------------------------
(* Claims about the router *)

\* the net of the routed design that an entry of the result stands for
NetsNamed(name) ==
    {i \in 1..Len(unit.design.nets) : unit.design.nets[i].name = name}

\* C11: a differential pair routed with a target of 100 ohm gets width 0.2 mm
\* and spacing 0.2 mm, with 90 ohm 0.25 mm and 0.15 mm, with any other
\* target the linear interpolation around 100 ohm, no less than 0.1 mm
\* either; the reported impedance is the target handed to the router.
C11_DiffPairGeometry ==
    unit.phase = "diff_routed" =>
        \A i \in 1..Len(unit.routing) :
            LET e == unit.routing[i]
                z == unit.impedance_target
            IN  /\ e.impedance = z
                /\ z = 100 => (e.trace_width = 200 /\ e.trace_spacing = 200)
                /\ z = 90 => (e.trace_width = 250 /\ e.trace_spacing = 150)
                /\ z \notin {100, 90} =>
                      /\ e.trace_width = Max(200 + (100 - z), 100)
                      /\ e.trace_spacing = Max(200 - (100 - z), 100)
                /\ e.trace_width >= 100 /\ e.trace_spacing >= 100

C11_Witness ==
    /\ unit.phase = "diff_routed"
    /\ unit.impedance_target = 250
    /\ \E i \in 1..Len(unit.routing) :
          unit.routing[i].trace_width = 100 /\ unit.routing[i].trace_spacing = 350

\* C12: the PDN trace widths returned by one call grow with the current of
\* the net (never shrink), and none is below min_trace_width, a current of 0
\* included.
C12_WidthMonotone ==
    unit.phase = "pdn_routed" =>
        /\ \A i \in 1..Len(unit.routing) :
              unit.routing[i].trace_width >= unit.design.constraints.min_trace_width
        /\ \A i, j \in 1..Len(unit.routing) :
              unit.routing[i].current_capacity <= unit.routing[j].current_capacity
                  => unit.routing[i].trace_width <= unit.routing[j].trace_width

C12_Witness ==
    /\ unit.phase = "pdn_routed"
    /\ \E i, j \in 1..Len(unit.routing) :
          /\ unit.routing[i].current_capacity = 0
          /\ unit.routing[i].trace_width = unit.design.constraints.min_trace_width
          /\ unit.routing[j].current_capacity = 2000
          /\ unit.routing[j].trace_width > unit.design.constraints.min_trace_width

\* the nets of the call whose own computation fails: a current below 0, or a
\* current of 0 with a minimum trace width of 0
NetFails(net) ==
    LET current == IF net.name \in DOMAIN unit.current_requirements
                   THEN unit.current_requirements[net.name] ELSE 100
    IN  \/ current < 0
        \/ current = 0 /\ unit.design.constraints.min_trace_width = 0

Routable(net) ==
    \E pfx \in {sVCC, <<"V","D","D">>, <<"G","N","D">>, <<"+">>, <<"-">>} : StartsWith(net.name, pfx)

\* C18: a routing pass never ends as a whole: nets of no routing category
\* are skipped, and a net whose computation fails is left out of the result
\* while every other net is processed and returned.
C18_LocalFailures ==
    /\ unit.phase # "pdn_raised"
    /\ unit.phase = "pdn_routed" =>
          \A i \in 1..Len(unit.design.nets) :
              LET net == unit.design.nets[i]
              IN  (\E k \in 1..Len(unit.routing) : unit.routing[k].net_name = net.name)
                      <=> (Routable(net) /\ ~NetFails(net))
    /\ unit.phase = "diff_routed" =>
          \A i \in 1..Len(unit.design.nets) :
              LET net == unit.design.nets[i]
              IN  (\E k \in 1..Len(unit.routing) : unit.routing[k].net_name = net.name)
                      <=> net.differential_pair

\* the references of the IC and microcontroller components with a pin on the net
IcsOn(net) ==
    {unit.design.components[k].reference : k \in
        {n \in 1..Len(unit.design.components) :
            /\ unit.design.components[n].component_type \in {"ic", "microcontroller"}
            /\ \E q \in 1..Len(net.pins) :
                  net.pins[q][1] = unit.design.components[n].reference}}

\* C20: with 4 layers or more the PDN design of a power net is a plane with
\* via stitching and exactly one 100 nF 0603 capacitor per IC or
\* microcontroller on the net, none for other components; with fewer layers
\* it is pour zones on a trace, without plane.
C20_PlaneAndDecoupling ==
    unit.phase = "pdn_routed" =>
        \A i \in 1..Len(unit.routing) :
            LET e == unit.routing[i]
                net == unit.design.nets[CHOOSE n \in NetsNamed(e.net_name) : TRUE]
                caps == e.decoupling_caps
            IN  IF unit.design.constraints.layer_count >= 4
                THEN /\ e.use_plane /\ e.via_stitching
                     /\ \A q \in 1..Len(caps) :
                           caps[q].value = "100nF" /\ caps[q].package = "0603"
                     /\ {caps[q].placement : q \in 1..Len(caps)} = IcsOn(net)
                     /\ Len(caps) = Cardinality(IcsOn(net))
                ELSE ~e.use_plane /\ e.pour_zones /\ caps = <<>>

---------------------------------------------------------------------------
(* Claims about the signal-integrity and the low-power placement *)

\* the components a pin of one of the critical nets refers to
ReferencedByCriticalNet(components, critical_nets) ==
    {i \in 1..Len(components) :
        \E n \in 1..Len(critical_nets) : \E q \in 1..Len(critical_nets[n].pins) :
            critical_nets[n].pins[q][1] = components[i].reference}

\* what one signal_integrity_placement step does to the component list
SignalPlacementEffect(old, new, critical_nets, constraints) ==
    LET crit == ReferencedByCriticalNet(old, critical_nets)
        k == Cardinality(crit)
        center == <<constraints.board_width \div 2, constraints.board_height \div 2>>
    IN  /\ Len(new) = Len(old)
        /\ \A i \in crit : new[i].critical_timing
        /\ \A i \in 1..Len(old) \ crit :
              /\ new[i].x = old[i].x /\ new[i].y = old[i].y
              /\ new[i].critical_timing = old[i].critical_timing
        /\ \E slot \in [crit -> 0..(k - 1)] :
              /\ \A i, j \in crit : slot[i] = slot[j] => i = j
              /\ \A i \in crit :
                    /\ new[i].x = center[1] + CircleOffsets(k)[slot[i] + 1][1]
                    /\ new[i].y = center[2] + CircleOffsets(k)[slot[i] + 1][2]

\* C16: signal_integrity_placement marks as critical-timing exactly the
\* components a pin of a critical net refers to, puts those k components at
\* board center + 15 mm (cos, sin)(2 pi i / k), i = 0..k-1, whatever the
\* thermal stage gave them, and leaves position and flag of every other
\* component as they were.
C16_SignalPlacementFrame ==
    [][(unit.phase = "thermal" /\ unit'.phase = "signal")
          => SignalPlacementEffect(unit.design.components, unit'.design.components,
                                   unit.critical_nets, unit.design.constraints)]_vars

C16_Witness ==
    /\ unit.phase = "signal"
    /\ Len(unit.design.components) = 3
    /\ Len(unit.critical_nets) = 1 /\ Len(unit.critical_nets[1].pins) = 2
    /\ unit.design.components[2].critical_timing
    /\ unit.design.components[2].x = unit.design.constraints.board_width \div 2 + 1500
    /\ unit.design.components[1].critical_timing
    /\ unit.design.components[1].x = unit.design.constraints.board_width \div 2 - 1500
    /\ ~unit.design.components[3].critical_timing
    /\ unit.design.components[3].placed_by \in {"grid", "random"}

\* the grid cells of the board: from the margin on, 2.54 mm apart, short of
\* the opposite margin
GridAxis(limit) == {1000 + 254 * a : a \in 0..((limit - 2001) \div 254)}

\* the cell at (x, y) is 5 mm or more from each of the first n components
CellQualifies(components, n, x, y) ==
    \A j \in 1..n :
        (components[j].x - x) * (components[j].x - x)
            + (components[j].y - y) * (components[j].y - y) >= 500 * 500

\* C17: thermal_aware_placement gives every low-power component (at most
\* 0.5 W) the first grid cell, row by row from (10, 10), that is 5 mm or more
\* from every component placed before it; so a component on a grid cell is
\* 5 mm or more from all placed before it, and the corner (10, 10) is the
\* fallback only when no cell qualifies.
C17_FirstFreeCell ==
    unit.phase = "thermal" =>
        LET cs == unit.design.components
            xs == GridAxis(unit.design.constraints.board_width)
            ys == GridAxis(unit.design.constraints.board_height)
        IN  \A i \in 1..Len(cs) :
                cs[i].thermal_power <= 500 =>
                    LET free == {c \in xs \X ys : CellQualifies(cs, i - 1, c[1], c[2])}
                    IN  IF free = {}
                        THEN /\ cs[i].placed_by = "fallback10"
                             /\ cs[i].x = 1000 /\ cs[i].y = 1000
                        ELSE /\ cs[i].placed_by = "grid"
                             /\ <<cs[i].x, cs[i].y>> \in free
                             /\ \A c \in free :
                                   \/ c[2] > cs[i].y
                                   \/ c[2] = cs[i].y /\ c[1] >= cs[i].x

C17_Witness ==
    /\ unit.phase = "thermal"
    /\ unit.design.constraints.board_width = 8000
    /\ Len(unit.design.components) = 3
    /\ unit.design.components[1].placed_by = "center"
    /\ unit.design.components[2].placed_by = "grid"
    /\ unit.design.components[2].x = 1000 /\ unit.design.components[2].y = 1000
    /\ unit.design.components[3].placed_by = "grid"
    /\ unit.design.components[3].x = 1508 /\ unit.design.components[3].y = 1000

---------------------------------------------------------------------------
(* ManufacturingOutputs driven alone, as test_manufacturing_file_generation
   drives it: the same design and project name generated twice *)

MaxOutputComponents == 3     \* most components of the generated design

\* The design is generated twice, in the running interpreter or, after a
\* restart, in a new one; set_order is the running process's set order.
InitOutputs ==
    LET Kinds == {<<"microcontroller", 600, "F.Cu">>, <<"led", 50, "F.Cu">>,
                  <<"crystal", 10, "F.Cu">>, <<"resistor", 50, "B.Cu">>}
        Placed(kinds) ==
            [i \in 1..Len(kinds) |->
                [ComponentPlacement(UnitRef(i), kinds[i][1], kinds[i][2])
                    EXCEPT !.x = 1000 + 254 * i, !.y = 1127, !.layer = kinds[i][3]]]
        nets == <<RoutingNet(sVCC, <<<<UnitRef(1), <<"1">>>>>>, 8),
                  RoutingNet(<<"S","I","G">>, <<<<UnitRef(1), <<"2">>>>>>, 3)>>
    IN  /\ engine = [placer |-> DefaultConstraints, router |-> DefaultConstraints,
                     drc |-> DefaultConstraints]
        /\ frames = [c \in Calls |-> IdleFrame]
        /\ fs = <<>>
        /\ \E kinds \in SeqsUpTo(Kinds, MaxOutputComponents),
              order \in {o \in [1..3 -> NoteTypes] : Range(o) = NoteTypes},
              pn \in ProjectNames :
              unit = [NoUnit EXCEPT
                        !.phase = "design",
                        !.design = PCBDesign(Placed(kinds), nets, DefaultConstraints),
                        !.project_name = pn,
                        !.set_order = order]

\* generate_gerber_files(design, name) and generate_assembly_drawings(design, name)
UnitGenerateOutputs ==
    LET gerber_files == generate_gerber_files(unit.project_name)
        assembly_files == generate_assembly_drawings(unit.project_name)
        paths == {gerber_files[i].path : i \in 1..Len(gerber_files)}
                 \cup {assembly_files[i].path : i \in 1..Len(assembly_files)}
        run == Len(unit.outputs) + 1
    IN  /\ unit.phase = "design"
        /\ run <= 2
        /\ fs' = [p \in DOMAIN fs \cup paths |-> IF p \in paths THEN run ELSE fs[p]]
        /\ unit' = [unit EXCEPT !.outputs = Append(@,
                        [gerber_files |-> gerber_files,
                         assembly_files |-> assembly_files,
                         gerber |-> GerberContents(unit.design),
                         assembly |-> AssemblyContents(unit.design, unit.set_order)])]
        /\ UNCHANGED <<engine, frames>>

\* the program is started again between the two generations: a new process
\* with its own hash salt
UnitRestartInterpreter ==
    /\ unit.phase = "design"
    /\ Len(unit.outputs) = 1
    /\ \E order \in {o \in [1..3 -> NoteTypes] : Range(o) = NoteTypes} :
          /\ order # unit.set_order
          /\ unit' = [unit EXCEPT !.set_order = order]
    /\ UNCHANGED <<engine, frames, fs>>

NextOutputs == UnitGenerateOutputs \/ UnitRestartInterpreter

SpecOutputs == InitOutputs /\ [][NextOutputs]_vars

\* C14: generating the manufacturing outputs twice from the same design and
\* project name gives the same contents in every file, the order of the
\* component-specific assembly notes included; the design is left as it
\* was; and each generation produces the 7 layer files, the drill file, the
\* pick-and-place file and the 3 assembly documents.
C14_DeterministicOutputs ==
    [][unit'.design = unit.design]_vars
    /\ [](\A r \in 1..Len(unit.outputs) :
            /\ Len(unit.outputs[r].gerber_files) = 9
            /\ Len(unit.outputs[r].assembly_files) = 3
            /\ \A i \in 1..9 : unit.outputs[r].gerber_files[i].path \in DOMAIN fs
            /\ \A i \in 1..3 : unit.outputs[r].assembly_files[i].path \in DOMAIN fs)
    /\ [](Len(unit.outputs) = 2 => unit.outputs[1] = unit.outputs[2])

---------------------------------------------------------------------------
(* The pipeline on circuits whose nets carry power-like names *)

MaxPowerConnections == 2     \* most connections of such a circuit

\* one call: connections between U1 and R1 on nets named VCC, vcc, AVDD,
\* POWER, GND_A, +5V or SIG, further records of the net VCC (another pair of
\* ends, both ends on one pin, a named pin), a record without net name, and
\* a record that states a differential pair with an impedance target
InitPower ==
    LET names == {sVCC, <<"v","c","c">>, <<"A","V","D","D">>,
                  <<"P","O","W","E","R">>, <<"G","N","D","_","A">>,
                  <<"+","5","V">>, <<"S","I","G">>}
        conns == {[net |-> n, from |-> sU1, to |-> sR1] : n \in names}
                 \cup {[net |-> sVCC, from |-> sR1, to |-> <<"D","1">>],
                       [net |-> sVCC, from |-> sU1, to |-> sU1],
                       [net |-> sVCC, from |-> sU1, from_pin |-> <<"2">>, to |-> sR1],
                       [from |-> sU1, to |-> sR1],
                       [net |-> <<"U","S","B","_","D","P">>, from |-> sU1, to |-> sR1,
                        differential_pair |-> TRUE, impedance_target |-> 120]}
    IN  /\ engine = [placer |-> DefaultConstraints, router |-> DefaultConstraints,
                     drc |-> DefaultConstraints]
        /\ \E cn \in SeqsUpTo(conns, MaxPowerConnections) :
              frames = [c \in Calls |->
                          IF c = 1
                          THEN NewFrame([kind |-> "dict", body |-> [connections |-> cn]],
                                        <<"c","i","r","c","u","i","t">>, "parse")
                          ELSE IdleFrame]
        /\ fs = <<>>
        /\ unit = NoUnit

SpecPower == InitPower /\ [][Next]_vars

\* C19: in a finished layout every net whose name holds VCC, VDD, GND or
\* POWER, in any case, has an entry in routing_results.power_distribution,
\* and no other net has one.
C19_PowerNetsRouted ==
    \A c \in Calls :
        (frames[c].pc = "done" /\ frames[c].result.kind = "layout") =>
            LET nets == frames[c].pcb_design.nets
                pdn == frames[c].result.power_distribution
            IN  \A i \in 1..Len(nets) :
                    (\E k \in 1..Len(pdn) : pdn[k].net_name = nets[i].name)
                        <=> \E kw \in {sVCC, <<"V","D","D">>, <<"G","N","D">>,
                                         <<"P","O","W","E","R">>} :
                                Contains(Upper(nets[i].name), kw)

---------------------------------------------------------------------------
(* AdvancedDRC constructed with one constraints object and handed a design
   with another, on nets with impedance targets *)

\* AdvancedDRC(checker_constraints).comprehensive_rule_check(design): the
\* nets are single-ended or differential, without impedance target (None)
\* or with one of 0 to 120 ohm.
InitDrcRules ==
    LET choices ==
            {DefaultConstraints,
             [DefaultConstraints EXCEPT !.min_trace_width = 50],
             [DefaultConstraints EXCEPT !.min_trace_width = 100, !.min_via_size = 200,
                                        !.board_width = 20000],
             [DefaultConstraints EXCEPT !.min_via_size = 100, !.board_height = 25000]}
        targets == {NoImpedance, 0, 30, 50, 75, 90, 100, 110, 120}
        profiles == targets \X BOOLEAN
        pins == <<<<UnitRef(1), <<"1">>>>, <<UnitRef(2), <<"1">>>>>>
        Nets(ps) ==
            [i \in 1..Len(ps) |->
                [RoutingNet(UnitNetName(i), pins, 3)
                    EXCEPT !.impedance_target = ps[i][1],
                           !.differential_pair = ps[i][2]]]
        comps == DrcComponents(<<<<<<1000, 1000>>, 50>>, <<<<4000, 3000>>, 50>>>>)
    IN  /\ engine = [placer |-> DefaultConstraints, router |-> DefaultConstraints,
                     drc |-> DefaultConstraints]
        /\ frames = [c \in Calls |-> IdleFrame]
        /\ fs = <<>>
        /\ \E ps \in SeqsUpTo(profiles, MaxDrcNets), kd \in choices, kc \in choices :
              unit = [NoUnit EXCEPT !.phase = "placed",
                                    !.design = PCBDesign(comps, Nets(ps), kd),
                                    !.drc_constraints = kc]

SpecDrcRules == InitDrcRules /\ [][NextDrc]_vars

\* the findings of the given kind in a list of findings
OfKind(findings, kind) == SelectSeq(findings, LAMBDA v : v.kind = kind)

\* C21: the rule check judges the design it is given: a trace-width
\* violation iff the design's min_trace_width is below 0.1 mm, a via
\* violation iff the design's min_via_size is below 0.2 mm, the cost warning
\* iff the design's board is wider or higher than 200 mm, whatever
\* constraints the checker itself was constructed with.
C21_RulesOfTheDesign ==
    unit.phase = "checked" =>
        LET k == unit.design.constraints
            r == unit.drc_results
        IN  /\ OfKind(r.violations, "trace_width_below_limit") # <<>>
                  <=> k.min_trace_width < 100
            /\ OfKind(r.violations, "via_size_below_limit") # <<>>
                  <=> k.min_via_size < 200
            /\ OfKind(r.warnings, "large_board") # <<>>
                  <=> (k.board_width > 20000 \/ k.board_height > 20000)

\* C22: of the nets with a declared impedance target, 0 included, a
\* single-ended one below 50 ohm and a differential pair outside 90..110 ohm
\* each get an unusual-impedance warning and no other net gets one; none of
\* these findings is a violation.
C22_ImpedanceWarnings ==
    unit.phase = "checked" =>
        LET r == unit.drc_results
            Warned(net) ==
                \E i \in 1..Len(r.warnings) :
                    /\ r.warnings[i].kind \in {"unusual_single_ended",
                                                "unusual_differential"}
                    /\ r.warnings[i].subject = <<net.name>>
        IN  /\ \A i \in 1..Len(unit.design.nets) :
                  LET net == unit.design.nets[i]
                  IN  Warned(net) <=>
                        /\ net.impedance_target # NoImpedance
                        /\ IF net.differential_pair
                           THEN net.impedance_target < 90 \/ net.impedance_target > 110
                           ELSE net.impedance_target < 50
            /\ \A i \in 1..Len(r.violations) :
                  r.violations[i].kind \notin {"unusual_single_ended",
                                               "unusual_differential"}

---------------------------------------------------------------------------
(* Claims about the parser *)

\* the connection records of the call and those among them naming net n
Connections(c) == Get(frames[c].circuit_data.body, "connections", <<>>)
RecordsOf(c, n) ==
    SelectSeq(Connections(c), LAMBDA r : "net" \in DOMAIN r /\ r.net = n)

\* the ends of the records, in order: from, to, from, to, ...
Ends(records) ==
    [i \in 1..(2 * Len(records)) |->
        LET r == records[(i + 1) \div 2]
        IN  IF i % 2 = 1
            THEN <<Get(r, "from", <<>>), Get(r, "from_pin", <<"1">>)>>
            ELSE <<Get(r, "to", <<>>), Get(r, "to_pin", <<"1">>)>>]

\* p lists the members of q once each, in the order of their first occurrence
FirstOccurrences(p, q) ==
    LET First(e) == CHOOSE i \in 1..Len(q) : q[i] = e /\ \A j \in 1..(i - 1) : q[j] # e
    IN  /\ Range(p) = Range(q)
        /\ \A i, j \in 1..Len(p) : i < j => p[i] # p[j] /\ First(p[i]) < First(p[j])

\* C23: the parser merges the connection records of one net name into one
\* net: no two nets of the design share a name, every name of a record has
\* its net, total_nets is the number of nets, which is the number of
\* distinct names when every record names its net; the pins of a net are
\* the ends of its records in first-occurrence order, each once; and no net
\* is without pin.
C23_NetsMerged ==
    \A c \in Calls :
        (frames[c].pc = "done" /\ frames[c].result.kind = "layout") =>
            LET nets == frames[c].pcb_design.nets
                conns == Connections(c)
                named == {i \in 1..Len(conns) : "net" \in DOMAIN conns[i]}
                names == {conns[i].net : i \in named}
            IN  /\ \A i, j \in 1..Len(nets) : nets[i].name = nets[j].name => i = j
                /\ names \subseteq {nets[i].name : i \in 1..Len(nets)}
                /\ frames[c].result.total_nets = Len(nets)
                /\ named = 1..Len(conns) => Len(nets) = Cardinality(names)
                /\ \A i \in 1..Len(nets) :
                      /\ Len(nets[i].pins) >= 1
                      /\ named = 1..Len(conns) =>
                            FirstOccurrences(nets[i].pins,
                                             Ends(RecordsOf(c, nets[i].name)))

C23_Witness ==
    /\ frames[1].pc = "done" /\ frames[1].result.kind = "layout"
    /\ Len(Connections(1)) = 2
    /\ frames[1].result.total_nets = 1
    /\ frames[1].pcb_design.nets[1].pins
          = <<<<sU1, <<"1">>>>, <<sR1, <<"1">>>>, <<<<"D","1">>, <<"1">>>>>>

\* the category a type name stands for, "" for a name of no category
CategoryNamed(name) ==
    CASE name = sMicrocontroller -> "microcontroller"
      [] name = sResistor -> "resistor"
      [] name = <<"c","a","p","a","c","i","t","o","r">> -> "capacitor"
      [] name = <<"l","e","d">> -> "led"
      [] name = <<"c","o","n","n","e","c","t","o","r">> -> "connector"
      [] name = <<"i","c">> -> "ic"
      [] name = <<"c","r","y","s","t","a","l">> -> "crystal"
      [] name = <<"i","n","d","u","c","t","o","r">> -> "inductor"
      [] OTHER -> ""

\* C24: both shapes of the components section end as one component list: a
\* mapping gives one component per key, of the category the key names, for
\* each of the 8 categories; a list record gives the category its type names.
C24_CanonicalComponents ==
    \A c \in Calls :
        (frames[c].pc = "done" /\ frames[c].result.kind = "layout"
         /\ "components" \in DOMAIN frames[c].circuit_data.body
         /\ frames[c].circuit_data.body.components.kind \in {"dict", "list"}) =>
            LET section == frames[c].circuit_data.body.components
                comps == frames[c].pcb_design.components
            IN  /\ Len(comps) = Len(section.items)
                /\ \A i \in 1..Len(comps) :
                      comps[i].component_type =
                        CategoryNamed(IF section.kind = "dict" THEN section.items[i].key
                                      ELSE section.items[i].type)

---------------------------------------------------------------------------
(* Claims about designs as the pipeline produces them *)

\* the pins of the design that name no component of it, as <<net, pin>>
DanglingPins(pcb_design) ==
    UNION {{<<n, q>> : q \in {k \in 1..Len(pcb_design.nets[n].pins) :
                                pcb_design.nets[n].pins[k][1]
                                    \notin References(pcb_design.components)}} :
            n \in 1..Len(pcb_design.nets)}

\* the kinds of finding the rule check knows
FindingKinds ==
    {"insufficient_connections", "too_close", "trace_width_below_limit",
     "via_size_below_limit", "large_board", "unusual_single_ended",
     "unusual_differential", "critical_far_apart", "thermal_spacing", "thermal_vias"}

\* C25: a pin naming no component is tolerated from end to end: the call
\* still ends with a layout (on a board of non-zero area), the
\* signal-integrity placement neither flags nor moves a component for it,
\* the pin counts among the pins of its net, and no finding of the rule
\* check is about it.
C25_DanglingPinsTolerated ==
    \A c \in Calls :
        LET d == frames[c].pcb_design
            r == frames[c].drc_results
        IN  (Done(c) /\ ParsesWithoutError(c) /\ DanglingPins(d) # {}
             /\ ~UtilizationRaises(d)) =>
                /\ frames[c].result.kind = "layout"
                /\ frames[c].result.error = ""
                /\ \A i \in 1..Len(d.components) :
                      (d.components[i].critical_timing
                       \/ d.components[i].placed_by = "circle") =>
                          \E n \in 1..Len(d.nets) :
                              /\ d.nets[n].priority > 5
                              /\ d.components[i].reference \in PinComponents(d.nets[n])
                /\ \A n \in 1..Len(d.nets) :
                      (\E v \in 1..Len(r.violations) :
                            /\ r.violations[v].kind = "insufficient_connections"
                            /\ r.violations[v].subject = <<d.nets[n].name>>)
                          <=> Len(d.nets[n].pins) < 2
                /\ \A v \in 1..Len(r.violations) : r.violations[v].kind \in FindingKinds
                /\ \A w \in 1..Len(r.warnings) : r.warnings[w].kind \in FindingKinds

C25_Witness ==
    LET d == frames[1].pcb_design
    IN  /\ Done(1) /\ frames[1].result.kind = "layout"
        /\ Len(d.components) = 2
        /\ Len(d.nets) = 1 /\ d.nets[1].name = sVCC /\ Len(d.nets[1].pins) = 2
        /\ sU1 \notin References(d.components)
        /\ d.components[1].reference = sR1 /\ d.components[1].critical_timing
        /\ ~d.components[2].critical_timing
        /\ frames[1].drc_results.pass

\* C26: no design of the pipeline holds a component above 0.5 W, whatever
\* thermal_power the input states: the parser estimates 0.5 W at most.  So
\* no component is placed by the high-power path (center, random search,
\* (20, 20) fallback) and the rule check never warns about the thermal
\* spacing of two high-power components.
C26_NoHighPower ==
    \A c \in Calls :
        LET d == frames[c].pcb_design
            r == frames[c].drc_results
        IN  /\ \A i \in 1..Len(d.components) :
                  /\ d.components[i].thermal_power <= 500
                  /\ d.components[i].placed_by \notin {"center", "random", "fallback20"}
            /\ \A w \in 1..Len(r.warnings) : r.warnings[w].kind # "thermal_spacing"

C26_Witness ==
    LET d == frames[1].pcb_design
    IN  /\ Done(1) /\ frames[1].result.kind = "layout"
        /\ Len(d.components) = 2
        /\ "components" \in DOMAIN frames[1].circuit_data.body
        /\ frames[1].circuit_data.body.components.kind = "list"
        /\ "thermal_power" \in DOMAIN frames[1].circuit_data.body.components.items[1]
        /\ frames[1].circuit_data.body.components.items[1].thermal_power = 3000
        /\ d.components[1].thermal_power = 500 /\ d.components[1].placed_by = "grid"
        /\ d.components[2].thermal_power = 500 /\ d.components[2].placed_by = "grid"
        /\ d.components[2].x = 1508

\* C27: the parser sets neither the differential-pair flag nor an impedance
\* target of a net, so differential_pairs of every returned layout is empty
\* and the rule check never warns about an impedance.
C27_NoDifferentialPairs ==
    \A c \in Calls :
        LET d == frames[c].pcb_design
            r == frames[c].drc_results
        IN  /\ \A n \in 1..Len(d.nets) :
                  ~d.nets[n].differential_pair /\ d.nets[n].impedance_target = NoImpedance
            /\ frames[c].routing_results = <<>>
            /\ frames[c].result.kind = "layout" => frames[c].result.differential_pairs = <<>>
            /\ \A w \in 1..Len(r.warnings) :
                  r.warnings[w].kind \notin {"unusual_single_ended", "unusual_differential"}

C27_Witness ==
    /\ Done(1) /\ frames[1].result.kind = "layout"
    /\ \E i \in 1..Len(Connections(1)) : "differential_pair" \in DOMAIN Connections(1)[i]
    /\ \E n \in 1..Len(frames[1].pcb_design.nets) :
          frames[1].pcb_design.nets[n].name = <<"U","S","B","_","D","P">>
    /\ frames[1].result.differential_pairs = <<>>
    /\ frames[1].drc_results.warnings = <<>>

---------------------------------------------------------------------------
(* The pipeline on circuits whose components all sit on one clock net *)

MaxCriticalComponents == 6     \* most components on the clock net

\* one call: k components, of type ic or of type microcontroller with a
\* stated thermal_power of 3 W, unconnected or chained by connection records
\* of the net CLK, on the default board, a 20 x 20 mm board or a 250 mm wide
\* one
InitCritical ==
    LET Comps(k, stated) ==
            [kind |-> "list",
             items |-> [i \in 1..k |->
                          IF stated
                          THEN [reference |-> UnitRef(i), type |-> sMicrocontroller,
                                thermal_power |-> 3000]
                          ELSE [reference |-> UnitRef(i), type |-> <<"i","c">>]]]
        Conns(k) == [i \in 1..k |-> [net |-> <<"C","L","K">>, from |-> UnitRef(i),
                                      to |-> UnitRef((i % k) + 1)]]
        boards == {<<>>, [board_width |-> 2000, board_height |-> 2000],
                   [board_width |-> 25000]}
    IN  /\ engine = [placer |-> DefaultConstraints, router |-> DefaultConstraints,
                     drc |-> DefaultConstraints]
        /\ \E k \in 0..MaxCriticalComponents, stated \in BOOLEAN, wired \in BOOLEAN,
              b \in boards, pn \in ProjectNames :
              frames = [c \in Calls |->
                          IF c = 1
                          THEN NewFrame([kind |-> "dict",
                                         body |-> [components |-> Comps(k, stated),
                                                   connections |->
                                                       IF wired THEN Conns(k) ELSE <<>>,
                                                   constraints |-> b]],
                                        pn, "parse")
                          ELSE IdleFrame]
        /\ fs = <<>>
        /\ unit = NoUnit

SpecCritical == InitCritical /\ [][Next]_vars

\* C28: in the pipeline the critical-timing components the rule check sees
\* are exactly the components on the 15 mm circle, at most 30 mm from one
\* another, and the rule check never warns that critical timing components
\* are far apart, however many they are.
C28_CriticalNeverFarApart ==
    \A c \in Calls :
        LET d == frames[c].pcb_design
            r == frames[c].drc_results
        IN  /\ \A i \in 1..Len(d.components) :
                  d.components[i].critical_timing <=> d.components[i].placed_by = "circle"
            /\ \A i, j \in 1..Len(d.components) :
                  (d.components[i].critical_timing /\ d.components[j].critical_timing)
                      => Dist2(d.components[i].x, d.components[i].y,
                               d.components[j].x, d.components[j].y) <= 3000 * 3000
            /\ \A w \in 1..Len(r.warnings) : r.warnings[w].kind # "critical_far_apart"

\* C29: only the connectivity and manufacturing checks produce violations:
\* the rule check passes iff every net has at least 2 pins and the checker's
\* min_trace_width is at least 0.1 mm and its min_via_size at least 0.2 mm,
\* whatever the positions, impedance targets and thermal powers are, and it
\* leaves the design as it was.
C29_PassCondition ==
    [][unit'.phase = "checked" =>
          LET r == unit'.drc_results
          IN  /\ unit'.design = unit.design
              /\ \A v \in 1..Len(r.violations) :
                    r.violations[v].kind \in {"insufficient_connections",
                                              "trace_width_below_limit",
                                              "via_size_below_limit"}
              /\ r.pass <=>
                    /\ \A n \in 1..Len(unit.design.nets) :
                          Len(unit.design.nets[n].pins) >= 2
                    /\ unit.drc_constraints.min_trace_width >= 100
                    /\ unit.drc_constraints.min_via_size >= 200]_vars

\* a design with two 3 W components 1 mm apart and a 30 ohm net of two pins
\* passes with warnings
C29_Witness ==
    /\ unit.phase = "checked"
    /\ unit.drc_results.pass
    /\ Len(unit.design.nets) = 2
    /\ OfKind(unit.drc_results.warnings, "thermal_spacing") # <<>>
    /\ OfKind(unit.drc_results.warnings, "too_close") # <<>>
    /\ OfKind(unit.drc_results.warnings, "unusual_single_ended") # <<>>

\* C30: a component thermal_aware_placement left at its fixed fallback
\* position, (10, 10) or (20, 20), and signal-integrity placement did not
\* move is named by at least one warning of the rule check that follows.
C30_FallbackWarned ==
    unit.phase = "checked" =>
        \A i \in 1..Len(unit.design.components) :
            unit.design.components[i].placed_by \in {"fallback10", "fallback20"}
                => \E w \in 1..Len(unit.drc_results.warnings) :
                      unit.design.components[i].reference
                          \in Range(unit.drc_results.warnings[w].subject)

=============================================================================
